---- MODULE Spec2Model ----
(***************************************************************************)
(* A model of camt-parser: the decimal/currency codec (dec_to_minor,       *)
(* ccy_exp, fmt_amount), the FX-rate reconciliation, the XML extractor     *)
(* (find_payload, parse_doc, parse_statement, parse_entry) and the row     *)
(* projection (export_entries_csv).                                        *)
(*                                                                         *)
(* Text is a sequence of one-character strings, so that every conversion   *)
(* is computed character by character as the C++ code computes it.         *)
(* The 64-bit integers of the code are modelled with WordBits bits: the    *)
(* overflow checks of the code compare against INT64_MAX / UINT64_MAX,     *)
(* which here are 2^(WordBits-1)-1 and 2^WordBits-1.                       *)
(***************************************************************************)
EXTENDS Integers, Sequences, FiniteSets, TLC

VARIABLES
    decText,    \* codec: the amount text handed to parse_amount
    decCcy,     \* codec: the Ccy attribute of the amount element
    decAmt,     \* codec: the CurrencyAmount parse_amount returned (or NoValue)
    decFmt,     \* codec: the text fmt_amount returned (or NoValue)
    decPc,      \* codec: "input" -> "parsed" -> "formatted"
    fxIn,       \* FX: the AmtDtls element of one TxDtls (amount texts, CcyXchg)
    fxTx,       \* FX: the FX fields of the EntryTransaction parse_txdtls builds
    fxPc,       \* FX: "input" -> "done"
    fxAmt,      \* FX: the Amt element of the TxDtls, if any
    fxAcct,     \* FX: Acct/Ccy of the statement around the TxDtls ("" when absent)
    xmlIn,      \* XML: the arguments of Parser::parse_string (document, out, error)
    xmlRes,     \* XML: what the call left (return value, out, error, payload)
    xmlPc,      \* XML: "input" -> "done"
    expIn,      \* export: the arguments of export_entries_csv (doc, osPtr, vPtr, opt)
    expOut,     \* export: the stream and the ExportData the call filled
    expPc,      \* export: "input" -> "done"
    srtRes,     \* sort: the ExportData and what the last sortExportData returned
    srtIn,      \* sort: the ExportData before the last call
    srtLast,    \* sort: the arguments of the last call (hasTitle, useBookingDate)
    srtPrev,    \* sort: the arguments of the call before the last
    srtPc,      \* sort: "input" -> "once" -> "twice"
    hshRow,     \* hash: the row handed to accumulate_hash_row
    hshFields,  \* hash: the field list of the last call
    hshOut,     \* hash: what the last call returned
    hshPrev,    \* hash: the field list and the result of the call before the last
    hshPc,      \* hash: "input" -> "once" -> "twice"
    gvcCsv,     \* GVC: the lines of the embedded table
    gvcGuard,   \* GVC: the guard of the static M: "uninit" -> "running" -> "done"
    gvcM,       \* GVC: the static M of get_gvc_map
    gvcPc,      \* GVC: where each thread is: "start", "build", "have"
    gvcLine,    \* GVC: the next line of the thread that builds
    gvcBuilds,  \* GVC: how often the initializer was started
    gvcSeen,    \* GVC: the tables get_gvc_map handed out or lookup_gvc read
    gvcLog,     \* GVC: the lookups made: <<arguments, result>>
    nrmIn,      \* normalization: the row, the field list and includeMode
    nrmOut,     \* normalization: the row after the call
    nrmPc       \* normalization: "input" -> "done"

decVars == <<decText, decCcy, decAmt, decFmt, decPc>>

fxVars == <<fxIn, fxTx, fxPc, fxAmt, fxAcct>>

xmlVars == <<xmlIn, xmlRes, xmlPc>>

expVars == <<expIn, expOut, expPc>>

srtVars == <<srtRes, srtIn, srtLast, srtPrev, srtPc>>

hshVars == <<hshRow, hshFields, hshOut, hshPrev, hshPc>>

gvcVars == <<gvcCsv, gvcGuard, gvcM, gvcPc, gvcLine, gvcBuilds, gvcSeen, gvcLog>>

nrmVars == <<nrmIn, nrmOut, nrmPc>>

vars ==
    <<decText, decCcy, decAmt, decFmt, decPc, fxIn, fxTx, fxPc, fxAmt, fxAcct, xmlIn, xmlRes, xmlPc,
      expIn, expOut, expPc, srtRes, srtIn, srtLast, srtPrev, srtPc,
      hshRow, hshFields, hshOut, hshPrev, hshPc,
      gvcCsv, gvcGuard, gvcM, gvcPc, gvcLine, gvcBuilds, gvcSeen, gvcLog,
      nrmIn, nrmOut, nrmPc>>

NoValue == "none"

\* An optional value (a possibly null pointer, std::optional, a possibly absent
\* element): the empty tuple, or the one-element tuple of the value.
None == <<>>

Some(x) == <<x>>

(***************************************************************************)
(* Bounds and word width                                                   *)
(***************************************************************************)
WordBits == 18

INT64_MAX == 2^(WordBits - 1) - 1

INT64_MIN == -INT64_MAX - 1

UINT64_MAX == 2^WordBits - 1

(***************************************************************************)
(* Characters and small helpers                                            *)
(***************************************************************************)
Digits == <<"0", "1", "2", "3", "4", "5", "6", "7", "8", "9">>

IsDigit(c) == \E i \in 1..10 : Digits[i] = c

DigitVal(c) == (CHOOSE i \in 1..10 : Digits[i] = c) - 1

Abs(x) == IF x < 0 THEN -x ELSE x

Max2(a, b) == IF a >= b THEN a ELSE b

Min2(a, b) == IF a <= b THEN a ELSE b

\* C++ integer division truncates toward zero; \div floors.
CppDiv(a, b) ==
    IF (a >= 0 /\ b > 0) \/ (a <= 0 /\ b < 0)
    THEN Abs(a) \div Abs(b)
    ELSE -(Abs(a) \div Abs(b))

CppMod(a, b) == a - b * CppDiv(a, b)

RECURSIVE Pow10(_)
Pow10(n) == IF n <= 0 THEN 1 ELSE 10 * Pow10(n - 1)

RECURSIVE Repeat(_, _)
Repeat(c, n) == IF n <= 0 THEN <<>> ELSE <<c>> \o Repeat(c, n - 1)

\* std::string::find_last_of(ch): 1-based position, 0 for npos.
RECURSIVE find_last_of(_, _)
find_last_of(s, ch) ==
    IF Len(s) = 0 THEN 0
    ELSE IF s[Len(s)] = ch THEN Len(s)
    ELSE find_last_of(SubSeq(s, 1, Len(s) - 1), ch)

\* std::string::find(ch): 1-based position, 0 for npos.
RECURSIVE find_first(_, _, _)
find_first(s, ch, from) ==
    IF from > Len(s) THEN 0
    ELSE IF s[from] = ch THEN from
    ELSE find_first(s, ch, from + 1)

\* std::remove + erase of one character.
remove_char(s, ch) == SelectSeq(s, LAMBDA c : c # ch)

\* std::to_string of an integer.
RECURSIVE NatToStr(_)
NatToStr(n) ==
    IF n < 10 THEN <<Digits[n + 1]>>
    ELSE NatToStr(n \div 10) \o <<Digits[(n % 10) + 1]>>

IntToStr(n) == IF n < 0 THEN <<"-">> \o NatToStr(-n) ELSE NatToStr(n)

(***************************************************************************)
(* Decimal / currency codec                                                *)
(***************************************************************************)
\* ISO-4217 exponents (short list); everything else has two decimals.
ccy_exp(ccy) ==
    IF ccy \in {"JPY", "KRW", "VND"} THEN 0
    ELSE IF ccy \in {"BHD", "KWD", "OMR", "TND"} THEN 3
    ELSE IF ccy = "CLF" THEN 4
    ELSE 2

\* The characters dec_to_minor erases first ("NBSP" stands for the byte 0xA0).
IsGroupingBlank(ch) == ch \in {" ", "\t", "\r", "\n", "'", "_", "NBSP"}

only_digits(t) == \A i \in 1..Len(t) : IsDigit(t[i])

\* parse_u64: [ok, v]; fails on a non-digit and before the value would pass UINT64_MAX.
RECURSIVE parse_u64_from(_, _, _)
parse_u64_from(t, i, out) ==
    IF i > Len(t) THEN [ok |-> TRUE, v |-> out]
    ELSE IF ~IsDigit(t[i]) THEN [ok |-> FALSE, v |-> out]
    ELSE IF out > (UINT64_MAX - DigitVal(t[i])) \div 10 THEN [ok |-> FALSE, v |-> out]
    ELSE parse_u64_from(t, i + 1, out * 10 + DigitVal(t[i]))

parse_u64(t) == parse_u64_from(t, 1, 0)

\* pow10_i64: [ok, v]; fails before the power would pass INT64_MAX.
RECURSIVE pow10_from(_, _, _)
pow10_from(e, i, out) ==
    IF i >= e THEN [ok |-> TRUE, v |-> out]
    ELSE IF out > INT64_MAX \div 10 THEN [ok |-> FALSE, v |-> out]
    ELSE pow10_from(e, i + 1, out * 10)

pow10_i64(e) == pow10_from(e, 0, 1)

\* mul_check: [ok, v]; the signed multiplication with its overflow test.
mul_check(a, b) ==
    IF a = 0 \/ b = 0 THEN [ok |-> TRUE, v |-> 0]
    ELSE IF a > 0 /\ b > 0 /\ a > CppDiv(INT64_MAX, b) THEN [ok |-> FALSE, v |-> 0]
    ELSE IF a > 0 /\ b <= 0 /\ b < CppDiv(INT64_MIN, a) THEN [ok |-> FALSE, v |-> 0]
    ELSE IF a <= 0 /\ b > 0 /\ a < CppDiv(INT64_MIN, b) THEN [ok |-> FALSE, v |-> 0]
    ELSE IF a <= 0 /\ b <= 0 /\ b < CppDiv(INT64_MAX, a) THEN [ok |-> FALSE, v |-> 0]
    ELSE [ok |-> TRUE, v |-> a * b]

\* The sign handling at the head of dec_to_minor: [neg, rest].
strip_sign(s0) ==
    LET paren == Len(s0) > 0 /\ s0[1] = "(" /\ s0[Len(s0)] = ")"
        s1    == IF paren THEN SubSeq(s0, 2, Len(s0) - 1) ELSE s0
        sign  == Len(s1) > 0 /\ s1[1] \in {"+", "-"}
    IN  [neg  |-> IF sign /\ s1[1] = "-" THEN ~paren ELSE paren,
         rest |-> IF sign THEN Tail(s1) ELSE s1]

\* Mutant: a '.' anywhere is the decimal point, wherever the last ',' is.
decimal_separator_dot_first(s) ==
    IF find_last_of(s, ".") # 0 THEN "."
    ELSE IF find_last_of(s, ",") # 0 THEN "," ELSE NoValue

\* The decimal separator of s: "." or ",", or NoValue when s has neither.
decimal_separator(s) ==
    LET lastDot == find_last_of(s, ".")
        lastCom == find_last_of(s, ",")
    IN  IF lastDot = 0 /\ lastCom = 0 THEN NoValue
        ELSE IF lastDot = 0 THEN ","
        ELSE IF lastCom = 0 THEN "."
        ELSE IF lastDot > lastCom THEN "." ELSE ","

\* The split and clean-up: [intp, frac] with the grouping separator removed.
split_decimal(s) ==
    LET dec   == decimal_separator(s)
        pos   == IF dec = NoValue THEN 0 ELSE find_last_of(s, dec)
        intp0 == IF dec = NoValue THEN s ELSE SubSeq(s, 1, pos - 1)
        frac0 == IF dec = NoValue THEN <<>> ELSE SubSeq(s, pos + 1, Len(s))
        other == IF dec = NoValue THEN NoValue ELSE IF dec = "." THEN "," ELSE "."
        intp1 == IF other = NoValue THEN intp0 ELSE remove_char(intp0, other)
        frac1 == IF other = NoValue THEN frac0 ELSE remove_char(frac0, other)
    IN  [intp |-> IF Len(intp1) = 0 THEN <<"0">> ELSE intp1, frac |-> frac1]

\* adjust fraction to exponent (truncate or pad)
adjust_fraction(frac, exp) ==
    IF Len(frac) > exp THEN SubSeq(frac, 1, exp)
    ELSE frac \o Repeat("0", exp - Len(frac))

\* The last step of dec_to_minor: combine with overflow checks.  The result is a
\* set: the signed addition scaled_major + fp_s of the negative branch is not
\* guarded (scaled_major >= 0 is never below INT64_MIN + fp_s), so when the sum
\* passes INT64_MAX the addition overflows, which is undefined behaviour.  The
\* builds produce the wrapped sum, left as it is by "if (v > 0) v = -v", or,
\* when the compiler folds that test using v >= 0, its (wrapped) negation.
combine_minor(neg, scaled_major, fp_s) ==
    IF neg
    THEN IF scaled_major < INT64_MIN + fp_s THEN {0}
         ELSE IF scaled_major + fp_s > INT64_MAX
              THEN LET w == scaled_major + fp_s - 2^WordBits
                   IN  {w, IF w = INT64_MIN THEN w ELSE -w}
              ELSE {IF scaled_major + fp_s > 0 THEN -(scaled_major + fp_s)
                    ELSE scaled_major + fp_s}
    ELSE IF scaled_major > INT64_MAX - fp_s THEN {0}
         ELSE {scaled_major + fp_s}

\* dec_to_minor(s, exp): the set of values the call can return.
dec_to_minor(str, exp0) ==
    LET sg    == strip_sign(SelectSeq(str, LAMBDA ch : ~IsGroupingBlank(ch)))
        parts == split_decimal(sg.rest)
        exp   == IF exp0 < 0 THEN 0 ELSE exp0
        frac  == adjust_fraction(parts.frac, exp)
        ip    == parse_u64(parts.intp)
        fp    == parse_u64(frac)
        scale == pow10_i64(exp)
        major == mul_check(ip.v, scale.v)
    IN  IF ~only_digits(parts.intp) \/ ~only_digits(parts.frac) THEN {0}
        ELSE IF ~ip.ok \/ ~fp.ok THEN {0}
        ELSE IF ip.v > INT64_MAX THEN {0}
        ELSE IF ~scale.ok THEN {0}
        ELSE IF ~major.ok THEN {0}
        ELSE IF fp.v > INT64_MAX THEN {0}
        ELSE combine_minor(sg.neg, major.v, fp.v)

\* parse_amount: the CurrencyAmounts the call can return.
parse_amount(text, ccy) ==
    {[currency |-> ccy, minor |-> m] : m \in dec_to_minor(text, ccy_exp(ccy))}

\* Mutant: the fraction is written without its fill.
pad_left_none(s, w) == s

\* std::setw(w) << std::setfill('0') << n
pad_left_zero(s, w) == Repeat("0", w - Len(s)) \o s

\* CurrencyAmount -> "123.45".  For minor = INT64_MIN the negation "v = -v"
\* overflows; the builds leave v = INT64_MIN, and the parts print negative.
fmt_amount(a) ==
    LET exp   == ccy_exp(a.currency)
        neg   == a.minor < 0
        v     == IF neg /\ a.minor # INT64_MIN THEN -a.minor ELSE a.minor
        pow10 == Pow10(exp)
        major == CppDiv(v, pow10)
        frac  == CppMod(v, pow10)
    IN  (IF neg THEN <<"-">> ELSE <<>>)
        \o IntToStr(major)
        \o (IF exp > 0 THEN <<".">> \o pad_left_zero(IntToStr(frac), exp) ELSE <<>>)

(***************************************************************************)
(* Codec specification: parse_amount on an amount text, then fmt_amount    *)
(***************************************************************************)
DecPrefixes == {<<>>, <<"-">>, <<"+">>, <<"(">>, <<"(", "-">>, <<" ">>}

DecIntParts ==
    {<<>>, <<"0">>, <<"5", "0">>, <<"1", "2", "3", "4">>,
     <<"1", ".", "2", "3", "4">>, <<"1", ",", "2", "3", "4">>,
     <<"1", "'", "2", "3", "4">>,
     <<"1", "3", "1", "0">>, <<"2", "6", "2", "1">>, <<"1", "3", "1", "0", "7">>,
     <<"1", "3", "1", "0", "7", "1">>, <<"1", "3", "1", "0", "7", "2">>,
     <<"2", "6", "2", "1", "4", "4">>, <<"1", "x", "5">>}

DecFracParts ==
    {<<>>, <<".">>, <<",", "5", "6">>, <<".", "5", "6">>, <<".", "7", "1">>,
     <<".", "7", "2">>, <<".", "9", "9">>, <<",", "5">>, <<".", "5", "6", "7">>,
     <<",", "0", "0">>, <<".", "5", "0", "0">>, <<".", "5", "x">>}

DecSuffixes == {<<>>, <<")">>}

DecTexts ==
    {p \o i \o f \o x : p \in DecPrefixes, i \in DecIntParts,
                        f \in DecFracParts, x \in DecSuffixes}

DecCurrencies == {"EUR", "JPY", "BHD", "CLF"}

\* The codec at rest, in the specifications of the other components.
DecIdle ==
    /\ decText = <<>>
    /\ decCcy = ""
    /\ decAmt = NoValue
    /\ decFmt = NoValue
    /\ decPc = "idle"

DecInit ==
    /\ decText \in DecTexts
    /\ decCcy \in DecCurrencies
    /\ decAmt = NoValue
    /\ decFmt = NoValue
    /\ decPc = "input"

\* parse_amount(amt): the element text through dec_to_minor with the currency's exponent.
ParseAmount ==
    /\ decPc = "input"
    /\ decAmt' \in parse_amount(decText, decCcy)
    /\ decPc' = "parsed"
    /\ UNCHANGED <<decText, decCcy, decFmt>>

\* fmt_amount on the parsed CurrencyAmount.
FormatAmount ==
    /\ decPc = "parsed"
    /\ decFmt' = fmt_amount(decAmt)
    /\ decPc' = "formatted"
    /\ UNCHANGED <<decText, decCcy, decAmt>>

DecNext == ParseAmount \/ FormatAmount

(***************************************************************************)
(* Reference reading of an amount text, used to state the codec's claims.  *)
(* It is written over positions and digit strings, with no bounded         *)
(* arithmetic, so that it does not share the code's overflow tests.        *)
(***************************************************************************)
RefLastIndex(s, ch) ==
    LET hits == {i \in 1..Len(s) : s[i] = ch}
    IN  IF hits = {} THEN 0 ELSE CHOOSE i \in hits : \A j \in hits : j <= i

\* [neg, intDigits, fracDigits, residue] of a text, read as the contract says:
\* blanks and the grouping marks ' and _ do not count; enclosing parentheses and
\* a leading '-' each negate; the later of the last '.' and the last ',' is the
\* decimal point and the other of the two is grouping.
RefRead(text) ==
    LET t      == SelectSeq(text, LAMBDA ch : ~IsGroupingBlank(ch))
        parens == Len(t) >= 2 /\ t[1] = "(" /\ t[Len(t)] = ")"
        inner  == IF parens THEN [i \in 1..(Len(t) - 2) |-> t[i + 1]] ELSE t
        signed == Len(inner) >= 1 /\ inner[1] \in {"+", "-"}
        minus  == signed /\ inner[1] = "-"
        body   == IF signed THEN [i \in 1..(Len(inner) - 1) |-> inner[i + 1]] ELSE inner
        point  == Max2(RefLastIndex(body, "."), RefLastIndex(body, ","))
        group  == IF point = 0 THEN NoValue ELSE IF body[point] = "." THEN "," ELSE "."
        keep   == {i \in 1..Len(body) : i # point /\ body[i] # group}
        intIx  == {i \in keep : point = 0 \/ i < point}
        fracIx == {i \in keep : point # 0 /\ i > point}
    IN  [neg     |-> (parens /\ ~minus) \/ (~parens /\ minus),
         intp    |-> SelectSeq([i \in 1..Len(body) |-> IF i \in intIx THEN body[i] ELSE "skip"],
                               LAMBDA c : c # "skip"),
         frac    |-> SelectSeq([i \in 1..Len(body) |-> IF i \in fracIx THEN body[i] ELSE "skip"],
                               LAMBDA c : c # "skip"),
         residue |-> \E i \in keep : ~IsDigit(body[i])]

\* A digit string without its leading zeros.
RECURSIVE StripZeros(_)
StripZeros(d) == IF Len(d) > 0 /\ d[1] = "0" THEN StripZeros(Tail(d)) ELSE d

\* A digit string without its trailing zeros.
RECURSIVE StripTrailingZeros(_)
StripTrailingZeros(d) ==
    IF Len(d) > 0 /\ d[Len(d)] = "0" THEN StripTrailingZeros(SubSeq(d, 1, Len(d) - 1)) ELSE d

\* a <= b for digit strings without leading zeros.
RECURSIVE DigitsLeq(_, _)
DigitsLeq(a, b) ==
    IF Len(a) # Len(b) THEN Len(a) < Len(b)
    ELSE IF Len(a) = 0 THEN TRUE
    ELSE IF a[1] # b[1] THEN DigitVal(a[1]) < DigitVal(b[1])
    ELSE DigitsLeq(Tail(a), Tail(b))

\* The k-th fractional digit of the reading, "0" past its end.
RefFracDigit(r, k) == IF k <= Len(r.frac) THEN r.frac[k] ELSE "0"

\* The digits of |value| x 10^exp, the fraction cut or padded to exp digits.
RefMagnitudeDigits(r, exp) ==
    StripZeros(r.intp \o [k \in 1..exp |-> RefFracDigit(r, k)])

\* |value| x 10^exp is at most INT64_MAX.
RefInRange(r, exp) == DigitsLeq(RefMagnitudeDigits(r, exp), NatToStr(INT64_MAX))

\* The value of a digit string, as a sum over its positions.
RECURSIVE RefSum(_, _)
RefSum(d, i) ==
    IF i > Len(d) THEN 0 ELSE DigitVal(d[i]) * 10^(Len(d) - i) + RefSum(d, i + 1)

\* The minor units the contract prescribes for an in-range reading.
RefMinor(r, exp) ==
    IF r.residue THEN 0
    ELSE (IF r.neg THEN -1 ELSE 1) * RefSum(RefMagnitudeDigits(r, exp), 1)

\* A well-formed decimal text: digits, with at least one, and nothing else left.
RefWellFormed(r) == ~r.residue /\ Len(r.intp) + Len(r.frac) > 0

\* [neg, intp, frac] of the plain text fmt_amount writes: [-]digits[.digits]
PlainRead(t) ==
    LET neg  == Len(t) > 0 /\ t[1] = "-"
        body == IF neg THEN Tail(t) ELSE t
        dot  == find_first(body, ".", 1)
    IN  [neg  |-> neg,
         intp |-> IF dot = 0 THEN body ELSE SubSeq(body, 1, dot - 1),
         frac |-> IF dot = 0 THEN <<>> ELSE SubSeq(body, dot + 1, Len(body)),
         dot  |-> dot # 0]

\* Two readings denote the same number.
NumEqual(a, b) ==
    /\ StripZeros(a.intp) = StripZeros(b.intp)
    /\ StripTrailingZeros(a.frac) = StripTrailingZeros(b.frac)
    /\ \/ a.neg = b.neg
       \/ (StripZeros(a.intp) = <<>> /\ StripTrailingZeros(a.frac) = <<>>)

DecRead == RefRead(decText)

DecExp == ccy_exp(decCcy)

\* The exact value sign x (integerPart x 10^exp + fraction) fits the signed word.
RefFitsSigned(r, exp) ==
    IF r.neg THEN DigitsLeq(RefMagnitudeDigits(r, exp), NatToStr(INT64_MAX + 1))
    ELSE RefInRange(r, exp)

\* C1: dec_to_minor never returns a wrapped value: whenever the exact value
\* sign x (integerPart x 10^exp + fraction) does not fit the signed word, the
\* result is 0, for negative texts (leading '-' or parentheses) as for positive.
C1_OverflowYieldsZero ==
    (decPc # "input" /\ ~DecRead.residue /\ ~RefFitsSigned(DecRead, DecExp))
        => decAmt.minor = 0

\* C6: on every in-range input dec_to_minor returns what the reference reading
\* prescribes: the later of the last '.' and last ',' is the decimal point, the
\* other one is grouping; the fraction is cut or zero-padded to exp digits; the
\* result is negative iff exactly one of (parentheses, leading '-') is present;
\* any non-digit residue gives 0.  Blanks and the marks ' and _ are erased first.
C6_AgreesWithReference ==
    (decPc # "input" /\ (DecRead.residue \/ RefInRange(DecRead, DecExp)))
        => decAmt.minor = RefMinor(DecRead, DecExp)

\* C6: "1.234,56" and "1,234.56" in EUR both give 123456 and "(50,00)" gives -5000.
C6_Examples ==
    /\ dec_to_minor(<<"1", ".", "2", "3", "4", ",", "5", "6">>, 2) = {123456}
    /\ dec_to_minor(<<"1", ",", "2", "3", "4", ".", "5", "6">>, 2) = {123456}
    /\ dec_to_minor(<<"(", "5", "0", ",", "0", "0", ")">>, 2) = {-5000}

C6_Theorem == C6_AgreesWithReference /\ C6_Examples

\* C6 witness: the parenthesised text "(1.234,56)" in EUR was parsed to -123456.
C6_Witness ==
    /\ decPc = "parsed"
    /\ decText = <<"(", "1", ".", "2", "3", "4", ",", "5", "6", ")">>
    /\ decCcy = "EUR"
    /\ decAmt.minor = -123456

\* C7 as stated: for every currency and every well-formed in-range text s the
\* formatted parse is numerically equal to s, with exactly ccy_exp fraction
\* digits and no separator when the exponent is 0.
C7_RoundTrip ==
    (decPc = "formatted" /\ RefWellFormed(DecRead) /\ RefInRange(DecRead, DecExp))
        => /\ NumEqual(PlainRead(decFmt), DecRead)
           /\ Len(PlainRead(decFmt).frac) = DecExp
           /\ PlainRead(decFmt).dot = (DecExp > 0)

\* No non-zero fraction digit of the reading lies beyond the exponent.
NoDigitCut(r, exp) == \A k \in 1..Len(r.frac) : k > exp => r.frac[k] = "0"

\* C7 amended: the round trip holds for the well-formed in-range texts that have
\* no non-zero fraction digit beyond ccy_exp(ccy) (further digits are cut, not
\* rounded); the fraction of the output always has exactly ccy_exp(ccy) digits.
C7_RoundTripUncut ==
    (decPc = "formatted" /\ RefWellFormed(DecRead) /\ RefInRange(DecRead, DecExp))
        => /\ NoDigitCut(DecRead, DecExp) => NumEqual(PlainRead(decFmt), DecRead)
           /\ Len(PlainRead(decFmt).frac) = DecExp
           /\ PlainRead(decFmt).dot = (DecExp > 0)

\* C7 witness: "-50,5" in BHD (three decimals) came back as "-50.500".
C7_Witness ==
    /\ decPc = "formatted"
    /\ decText = <<"-", "5", "0", ",", "5">>
    /\ decCcy = "BHD"
    /\ decFmt = <<"-", "5", "0", ".", "5", "0", "0">>

(***************************************************************************)
(* FX rate reconciliation.  A double is modelled as the exact rational     *)
(* [n, d] (d > 0) it stands for; the rounding of the double operations is  *)
(* some 1e-16 relative, far inside the tolerances compared below.          *)
(***************************************************************************)
RECURSIVE GCD(_, _)
GCD(a, b) == IF b = 0 THEN a ELSE GCD(b, a % b)

Rat(n, d) ==
    LET g == GCD(Abs(n), Abs(d))
    IN  IF n = 0 THEN [n |-> 0, d |-> 1]
        ELSE [n |-> (IF d < 0 THEN -1 ELSE 1) * (n \div g), d |-> Abs(d) \div g]

RatZero == Rat(0, 1)

RatDiv(a, b) == Rat(a.n * b.d, a.d * b.n)

RatAbsDiff(a, b) == Rat(Abs(a.n * b.d - b.n * a.d), a.d * b.d)

\* a <= n / (d * 10^k), for a >= 0, n >= 0, d > 0
RatLeqScaled(a, n, d, k) == a.n * d <= (n * a.d) \div Pow10(k)

\* The length of the run of digits of s that starts at position i.
RECURSIVE DigitRun(_, _)
DigitRun(s, i) == IF i <= Len(s) /\ IsDigit(s[i]) THEN 1 + DigitRun(s, i + 1) ELSE 0

\* The value of the digits s[i..i+k-1].
RECURSIVE DigitsValue(_, _, _)
DigitsValue(s, i, k) ==
    IF k = 0 THEN 0 ELSE DigitsValue(s, i, k - 1) * 10 + DigitVal(s[i + k - 1])

\* std::stod: the longest prefix [sign]digits[.digits] (one digit at least);
\* [ok, v], ok = FALSE where stod throws std::invalid_argument.
stod(s) ==
    LET sign == Len(s) > 0 /\ s[1] \in {"+", "-"}
        i0   == IF sign THEN 2 ELSE 1
        k1   == DigitRun(s, i0)
        dot  == i0 + k1 <= Len(s) /\ s[i0 + k1] = "."
        k2   == IF dot THEN DigitRun(s, i0 + k1 + 1) ELSE 0
        mag  == DigitsValue(s, i0, k1) * Pow10(k2) + DigitsValue(s, i0 + k1 + 1, k2)
    IN  IF k1 + k2 = 0 THEN [ok |-> FALSE, v |-> RatZero]
        ELSE [ok |-> TRUE, v |-> Rat(IF sign /\ s[1] = "-" THEN -mag ELSE mag, Pow10(k2))]

\* The XchgRate text to fx.rate: ',' replaced by '.', stod, 0.0 when empty or thrown.
parse_xchg_rate(text) ==
    LET s == [i \in 1..Len(text) |-> IF text[i] = "," THEN "." ELSE text[i]]
    IN  IF Len(s) = 0 \/ ~stod(s).ok THEN RatZero ELSE stod(s).v

\* reconcile_ccyxchg::toMajor
toMajor(ca) == Rat(ca.minor, Pow10(ccy_exp(ca.currency)))

\* Mutant: the relative tolerance is 1e-4 instead of EPS_REL = 1e-6.
within_tolerance_loose(diff, derived) ==
    \/ RatLeqScaled(diff, 1, 1, 9)
    \/ RatLeqScaled(diff, Abs(derived.n), derived.d, 4)

\* diff <= std::max(1e-9, std::fabs(derived) * EPS_REL), EPS_REL = 1e-6
within_tolerance(diff, derived) ==
    \/ RatLeqScaled(diff, 1, 1, 9)
    \/ RatLeqScaled(diff, Abs(derived.n), derived.d, 6)

\* reconcile_ccyxchg: [rate, inverted], the two out-parameters.  aSrc and aTrg
\* are optional CurrencyAmounts (None for the null pointer).
reconcile_ccyxchg(fx, aSrc, aTrg) ==
    LET none == [rate |-> RatZero, inverted |-> FALSE]
    IN  IF aSrc = None \/ aTrg = None THEN none
        ELSE IF aSrc[1].currency = "" \/ aTrg[1].currency = "" THEN none
        ELSE IF aSrc[1].minor = 0 \/ aTrg[1].minor = 0 THEN none
        ELSE LET derived == RatDiv(toMajor(aTrg[1]), toMajor(aSrc[1]))
             IN  IF fx.has /\ fx.rate.n > 0
                 THEN IF within_tolerance(RatAbsDiff(fx.rate, derived), derived)
                      THEN [rate |-> fx.rate, inverted |-> FALSE]
                      ELSE IF within_tolerance(
                                  RatAbsDiff(RatDiv(Rat(1, 1), fx.rate), derived), derived)
                      THEN [rate |-> derived, inverted |-> TRUE]
                      ELSE [rate |-> derived, inverted |-> FALSE]
                 ELSE [rate |-> derived, inverted |-> FALSE]

ZeroAmount == [currency |-> "", minor |-> 0]

\* The amounts parse_amount can return for an optional <X><Amt Ccy=..>text</Amt></X>.
amounts_of(el) == IF el = None THEN {ZeroAmount} ELSE parse_amount(el[1].text, el[1].ccy)

\* parse_txdtls, "Foreign currency details": the fields read from AmtDtls.  ad is
\* an optional [instd, cx, tx, cntr] of optional elements; CcyXchg is looked up
\* inside InstdAmt, and only when InstdAmt has an Amt child.
read_amtdtls(ad, ia, ta, cv) ==
    LET hasI == ad # None /\ ad[1].instd # None
        hasT == ad # None /\ ad[1].tx # None
        hasC == ad # None /\ ad[1].cntr # None
        cx   == IF hasI THEN ad[1].cx ELSE None
        hasR == cx # None /\ cx[1].rate # None
    IN  [fx |-> [srcCcy  |-> IF cx = None THEN "" ELSE cx[1].src,
                 trgtCcy |-> IF cx = None THEN "" ELSE cx[1].trg,
                 rate    |-> IF hasR THEN parse_xchg_rate(cx[1].rate[1]) ELSE RatZero,
                 has     |-> hasR],
         fxInstdAmt      |-> IF hasI THEN ia ELSE ZeroAmount,
         fxTxAmt         |-> IF hasT THEN ta ELSE ZeroAmount,
         fxCounterValAmt |-> IF hasC THEN cv ELSE ZeroAmount,
         hasFxInstdAmt   |-> hasI,
         hasFxTxAmt      |-> hasT,
         hasFxCntrVal    |-> hasC]

\* parse_txdtls, "derive FX rate consistently": [src, trg], the two amounts
\* mapped to the provided SrcCcy / TrgtCcy (None for a null pointer).
map_src_trg(t) ==
    LET none  == [src |-> None, trg |-> None]
        named == t.fx.srcCcy # "" /\ t.fx.trgtCcy # ""
        first ==
            IF t.hasFxInstdAmt /\ t.hasFxTxAmt /\ named
            THEN IF t.fx.srcCcy = t.fxInstdAmt.currency /\ t.fx.trgtCcy = t.fxTxAmt.currency
                 THEN [src |-> Some(t.fxInstdAmt), trg |-> Some(t.fxTxAmt)]
                 ELSE IF t.fx.srcCcy = t.fxTxAmt.currency
                         /\ t.fx.trgtCcy = t.fxInstdAmt.currency
                 THEN [src |-> Some(t.fxTxAmt), trg |-> Some(t.fxInstdAmt)]
                 ELSE none
            ELSE none
        second ==
            IF t.hasFxCntrVal /\ t.hasFxInstdAmt /\ named
            THEN IF t.fx.srcCcy = t.fxCounterValAmt.currency
                    /\ t.fx.trgtCcy = t.fxInstdAmt.currency
                 THEN [src |-> Some(t.fxCounterValAmt), trg |-> Some(t.fxInstdAmt)]
                 ELSE IF t.fx.srcCcy = t.fxInstdAmt.currency
                         /\ t.fx.trgtCcy = t.fxCounterValAmt.currency
                 THEN [src |-> Some(t.fxInstdAmt), trg |-> Some(t.fxCounterValAmt)]
                 ELSE none
            ELSE none
    IN  IF ~t.fx.has THEN none
        ELSE IF first.src # None THEN first
        ELSE second

\* The FX fields of the EntryTransaction parse_txdtls returns, with the two
\* locals effRate and inverted that reconcile_ccyxchg filled.
txdtls_fx(ad, ia, ta, cv) ==
    LET t   == read_amtdtls(ad, ia, ta, cv)
        m   == map_src_trg(t)
        rec == reconcile_ccyxchg(t.fx, m.src, m.trg)
        fx2 == IF rec.rate.n > 0 THEN [t.fx EXCEPT !.rate = rec.rate, !.has = TRUE] ELSE t.fx
    IN  [t EXCEPT !.fx = fx2] @@ [effRate |-> rec.rate, inverted |-> rec.inverted]

\* parse_txdtls, "Amount of single transaction": TxDtls/Amt, or else
\* TxDtls/AmtDtls/TxAmt/Amt; an optional CurrencyAmount.
read_tx_amount(amt, a0, ad, ta) ==
    IF amt # None THEN Some(a0)
    ELSE IF ad # None /\ ad[1].tx # None THEN Some(ta)
    ELSE None

\* pick_amount_in_ccy::pick_one for the element el parsed to ca
pick_one(el, ca, accountCcy) ==
    IF el = None THEN None
    ELSE IF ca.currency = accountCcy THEN Some(ca)
    ELSE None

\* pick_amount_in_ccy: the first of TxAmt, InstdAmt, CntrValAmt in accountCcy
pick_amount_in_ccy(ad, ia, ta, cv, accountCcy) ==
    IF ad = None THEN None
    ELSE IF pick_one(ad[1].tx, ta, accountCcy) # None THEN pick_one(ad[1].tx, ta, accountCcy)
    ELSE IF pick_one(ad[1].instd, ia, accountCcy) # None THEN pick_one(ad[1].instd, ia, accountCcy)
    ELSE pick_one(ad[1].cntr, cv, accountCcy)

\* Mutant: the amount in the account currency replaces whatever was set.
prefer_account_amount_always(txAmount, acctAmt, accountCcy) ==
    IF acctAmt = None THEN txAmount ELSE acctAmt

\* parse_txdtls, "prioritize account-currency amount": acctAmt replaces
\* t.txAmount when none was set or the one set is in another currency.
prefer_account_amount(txAmount, acctAmt, accountCcy) ==
    IF acctAmt = None THEN txAmount
    ELSE IF txAmount = None THEN acctAmt
    ELSE IF txAmount[1].currency # accountCcy THEN acctAmt
    ELSE txAmount

\* t.txAmount of the EntryTransaction parse_txdtls returns.
txdtls_amount(amt, a0, ad, ia, ta, cv, accountCcy) ==
    IF accountCcy = "" \/ ad = None THEN read_tx_amount(amt, a0, ad, ta)
    ELSE prefer_account_amount(read_tx_amount(amt, a0, ad, ta),
                               pick_amount_in_ccy(ad, ia, ta, cv, accountCcy), accountCcy)

T_100_00 == <<"1", "0", "0", ".", "0", "0">>

T_92_00 == <<"9", "2", ".", "0", "0">>

T_80_00 == <<"8", "0", ".", "0", "0">>

T_1_0870 == <<"1", ".", "0", "8", "7", "0">>

FxInstd == {None} \cup
    {Some([text |-> x, ccy |-> c]) : x \in {T_100_00, <<"0">>}, c \in {"USD", "JPY", ""}}

FxRateTexts ==
    {T_1_0870, <<"0", ".", "9", "2">>, <<"1", ",", "2", "5">>,
     <<"0", ",", "8">>, <<"x">>, <<"0">>, <<>>}

FxCcyXchg == {None} \cup
    {Some([src |-> a, trg |-> b, rate |-> r]) :
        a \in {"USD", "EUR", ""}, b \in {"EUR", "USD"},
        r \in {None} \cup {Some(x) : x \in FxRateTexts}}

FxTxAmt == {None} \cup
    {Some([text |-> T_92_00, ccy |-> "EUR"]), Some([text |-> T_80_00, ccy |-> "EUR"]),
     Some([text |-> T_100_00, ccy |-> "USD"])}

FxCntrVal == {None, Some([text |-> T_92_00, ccy |-> "EUR"])}

FxAmtDtls == {None} \cup
    {Some([instd |-> i, cx |-> c, tx |-> t, cntr |-> v]) :
        i \in FxInstd, c \in FxCcyXchg, t \in FxTxAmt, v \in FxCntrVal}

FxAmt == {None, Some([text |-> T_80_00, ccy |-> "EUR"]), Some([text |-> T_100_00, ccy |-> "JPY"])}

FxAccountCcy == {"", "EUR", "USD"}

FxIdle ==
    /\ fxIn = None
    /\ fxTx = None
    /\ fxPc = "idle"
    /\ fxAmt = None
    /\ fxAcct = ""

FxInit ==
    /\ fxIn \in FxAmtDtls
    /\ fxTx = None
    /\ fxPc = "input"
    /\ fxAmt \in FxAmt
    /\ fxAcct \in FxAccountCcy

\* parse_txdtls on a TxDtls whose AmtDtls is fxIn and whose Amt is fxAmt, in
\* a statement of an account in fxAcct: the amount and the FX part of the
\* result.  txAmountRead is t.txAmount as it stood before the preference of
\* the account currency.
ParseTxDtlsFx ==
    /\ fxPc = "input"
    /\ \E ia \in (IF fxIn = None THEN {ZeroAmount} ELSE amounts_of(fxIn[1].instd)),
          ta \in (IF fxIn = None THEN {ZeroAmount} ELSE amounts_of(fxIn[1].tx)),
          cv \in (IF fxIn = None THEN {ZeroAmount} ELSE amounts_of(fxIn[1].cntr)),
          a0 \in amounts_of(fxAmt) :
            fxTx' = txdtls_fx(fxIn, ia, ta, cv)
                    @@ [txAmountRead |-> read_tx_amount(fxAmt, a0, fxIn, ta),
                        txAmount |-> txdtls_amount(fxAmt, a0, fxIn, ia, ta, cv, fxAcct)]
    /\ fxPc' = "done"
    /\ UNCHANGED <<fxIn, fxAmt, fxAcct>>

FxNext == ParseTxDtlsFx

(***************************************************************************)
(* XML extraction (camt_parser_pugi.hpp): element lookup by local name,     *)
(* find_payload, detect_kind, parse_entry, parse_statement, Parser.          *)
(* An element is [name, text, kids]: name is the qualified name split at     *)
(* ':' (<<"ns", "Stmt">> is ns:Stmt), text its character data, kids the      *)
(* child elements in document order.  A node handle into the document is     *)
(* the path of child indexes from the root (<<>> is the root itself).        *)
(***************************************************************************)
El(name, text, kids) == [name |-> name, text |-> text, kids |-> kids]

Leaf(local, text) == El(<<local>>, text, <<>>)

Node(local, kids) == El(<<local>>, <<>>, kids)

\* ln: the name after the last ':' (strrchr)
ln(n) == n.name[Len(n.name)]

isln(n, wanted) == ln(n) = wanted

\* The index of the first child from position i whose local name is name; 0 if none.
RECURSIVE child_from(_, _, _)
child_from(p, name, i) ==
    IF i > Len(p.kids) THEN 0
    ELSE IF isln(p.kids[i], name) THEN i
    ELSE child_from(p, name, i + 1)

\* child_any: the first direct child with that local name, None for the null node.
child_any(p, name) ==
    LET i == child_from(p, name, 1)
    IN  IF i = 0 THEN None ELSE Some(p.kids[i])

\* desc_any's loop from child i: the path to the first match in depth-first
\* order, <<>> for the null node.
RECURSIVE desc_from(_, _, _)
desc_from(p, name, i) ==
    IF i > Len(p.kids) THEN <<>>
    ELSE IF isln(p.kids[i], name) THEN <<i>>
    ELSE LET found == desc_from(p.kids[i], name, 1)
         IN  IF found # <<>> THEN <<i>> \o found ELSE desc_from(p, name, i + 1)

desc_any(p, name) == desc_from(p, name, 1)

\* The element a path leads to.
RECURSIVE node_at(_, _)
node_at(p, path) == IF path = <<>> THEN p ELSE node_at(p.kids[Head(path)], Tail(path))

IsTrimmed(ch) == ch \in {" ", "\t", "\n", "\r"}

RECURSIVE trim_left(_)
trim_left(s) == IF s # <<>> /\ IsTrimmed(Head(s)) THEN trim_left(Tail(s)) ELSE s

RECURSIVE trim_right(_)
trim_right(s) ==
    IF s # <<>> /\ IsTrimmed(s[Len(s)]) THEN trim_right(SubSeq(s, 1, Len(s) - 1)) ELSE s

\* txt: the element's text without leading and trailing blanks
txt(n) == trim_right(trim_left(n.text))

\* The text of an optional element, empty for the null node.
text_of(n) == IF n # None THEN txt(n[1]) ELSE <<>>

child_text(p, name) == text_of(child_any(p, name))

\* The text of the element a desc_any path leads to, empty for the null node.
text_at(p, path) == IF path # <<>> THEN txt(node_at(p, path)) ELSE <<>>

desc_text(p, name) == text_at(p, desc_any(p, name))

PayloadNames == {"BkToCstmrStmt", "BkToCstmrDbtCdtNtfctn", "BkToCstmrAcctRpt"}

is_payload_name(n) ==
    isln(n, "BkToCstmrStmt") \/ isln(n, "BkToCstmrDbtCdtNtfctn") \/ isln(n, "BkToCstmrAcctRpt")

\* The index of the first child from position i that bears a payload name; 0 if none.
RECURSIVE payload_child_from(_, _)
payload_child_from(root, i) ==
    IF i > Len(root.kids) THEN 0
    ELSE IF is_payload_name(root.kids[i]) THEN i
    ELSE payload_child_from(root, i + 1)

\* find_payload's generic depth-first search, given what the three desc_any
\* calls return.
first_by_name(stmt, ntfctn, rpt) ==
    IF stmt # <<>> THEN Some(stmt)
    ELSE IF ntfctn # <<>> THEN Some(ntfctn)
    ELSE IF rpt # <<>> THEN Some(rpt)
    ELSE None

generic_search(root) ==
    first_by_name(desc_any(root, "BkToCstmrStmt"), desc_any(root, "BkToCstmrDbtCdtNtfctn"),
                  desc_any(root, "BkToCstmrAcctRpt"))

\* find_payload once the root itself is ruled out; c is the first direct child
\* that bears a payload name (0 if none).
payload_below(root, c) ==
    IF isln(root, "Document") /\ c # 0 THEN Some(<<c>>) ELSE generic_search(root)

\* Mutant: the direct children are searched whatever the root's name is.
find_payload_any_root(root) ==
    IF is_payload_name(root) THEN Some(<<>>)
    ELSE IF payload_child_from(root, 1) # 0 THEN Some(<<payload_child_from(root, 1)>>)
    ELSE generic_search(root)

\* find_payload: Some(path to the payload element), None for the null node.
find_payload(root) ==
    IF is_payload_name(root) THEN Some(<<>>)
    ELSE payload_below(root, payload_child_from(root, 1))

\* Mutant: an unrecognised payload is taken for a camt.053 statement.
detect_kind_default_053(payload) ==
    IF payload = None THEN "Camt053"
    ELSE IF isln(payload[1], "BkToCstmrStmt") THEN "Camt053"
    ELSE IF isln(payload[1], "BkToCstmrDbtCdtNtfctn") THEN "Camt054"
    ELSE IF isln(payload[1], "BkToCstmrAcctRpt") THEN "Camt052"
    ELSE "Camt053"

\* detect_kind; payload is an optional element (ln of the null node is "").
detect_kind(payload) ==
    IF payload = None THEN "Unknown"
    ELSE IF isln(payload[1], "BkToCstmrStmt") THEN "Camt053"
    ELSE IF isln(payload[1], "BkToCstmrDbtCdtNtfctn") THEN "Camt054"
    ELSE IF isln(payload[1], "BkToCstmrAcctRpt") THEN "Camt052"
    ELSE "Unknown"

\* std::string::substr(pos, n), for pos <= size
substr(s, pos, n) == SubSeq(s, pos + 1, Min2(pos + n, Len(s)))

IsSpace(ch) == ch \in {" ", "\t", "\n", "\r", "\f"}

RECURSIVE SpaceRun(_, _)
SpaceRun(s, i) == IF i <= Len(s) /\ IsSpace(s[i]) THEN 1 + SpaceRun(s, i + 1) ELSE 0

\* std::stoi once the blanks and the sign are passed: i0 is where the sign
\* would stand, i1 where the digits start, k the length of the run of digits.
stoi_digits(s, i0, i1, k) ==
    IF k = 0 THEN [ok |-> FALSE, v |-> 0]
    ELSE [ok |-> TRUE,
          v |-> IF i1 > i0 /\ s[i0] = "-" THEN -DigitsValue(s, i1, k)
                ELSE DigitsValue(s, i1, k)]

stoi_sign(s, i0, i1) == stoi_digits(s, i0, i1, DigitRun(s, i1))

stoi_from(s, i0) ==
    stoi_sign(s, i0, IF i0 <= Len(s) /\ s[i0] \in {"+", "-"} THEN i0 + 1 ELSE i0)

\* std::stoi: leading blanks, an optional sign, then the longest run of digits;
\* [ok, v], ok = FALSE where stoi throws std::invalid_argument (no digit).
stoi(s) == stoi_from(s, 1 + SpaceRun(s, 1))

\* y * 10000 + m * 100 + d of three std::stoi results
iso_value(y, m, d) ==
    IF y.ok /\ m.ok /\ d.ok
    THEN [ok |-> TRUE, v |-> y.v * 10000 + m.v * 100 + d.v]
    ELSE [ok |-> FALSE, v |-> 0]

\* parse_entry::parse_iso_date: [ok, v], ok = FALSE where a std::stoi throws.
parse_iso_date(s) ==
    IF Len(s) < 10 THEN [ok |-> TRUE, v |-> 0]
    ELSE iso_value(stoi(substr(s, 0, 4)), stoi(substr(s, 5, 2)), stoi(substr(s, 8, 2)))

\* read_date_choice once Dt and DtTm below the element are read.
date_choice(d, dtm, parent, name) ==
    IF d # <<>> THEN d
    ELSE IF dtm # <<>> THEN substr(dtm, 0, 10)
    ELSE child_text(parent, name)

date_below(n, parent, name) ==
    IF n = None THEN <<>>
    ELSE date_choice(desc_text(n[1], "Dt"), desc_text(n[1], "DtTm"), parent, name)

\* parse_entry::read_date_choice
read_date_choice(parent, name) == date_below(child_any(parent, name), parent, name)

\* The EndToEndId below an optional Refs element.
end_to_end_id(refs) == IF refs = None THEN <<>> ELSE child_text(refs[1], "EndToEndId")

\* parse_txdtls, the references: the EntryTransaction before its ordinal is set.
parse_txdtls(tx) ==
    [endToEndId |-> end_to_end_id(child_any(tx, "Refs")), importOrdinal |-> -1]

\* parse_entry, the loop over the children of NtryDtls from child i.
RECURSIVE parse_transactions(_, _, _)
parse_transactions(nd, i, txOrdinal) ==
    IF i > Len(nd.kids) THEN <<>>
    ELSE IF ~isln(nd.kids[i], "TxDtls") THEN parse_transactions(nd, i + 1, txOrdinal)
    ELSE <<[parse_txdtls(nd.kids[i]) EXCEPT !.importOrdinal = txOrdinal]>>
            \o parse_transactions(nd, i + 1, txOrdinal + 1)

\* The Entry parse_entry returns, given what it read: [threw, e]; threw where
\* std::stoi throws out of parse_iso_date (the exception is caught nowhere up to
\* the caller of Parser::parse_*).
entry_of(bd, bi, vd, vi, r, nd) ==
    [threw |-> ~bi.ok \/ ~vi.ok,
     e |-> [bookingDate    |-> bd,
            bookingDateInt |-> bi.v,
            valueDate      |-> vd,
            valueDateInt   |-> vi.v,
            entryRef       |-> text_of(r),
            transactions   |-> IF nd = None THEN <<>> ELSE parse_transactions(nd[1], 1, 0),
            importOrdinal  |-> -1]]

entry_dates(bd, vd, r, nd) == entry_of(bd, parse_iso_date(bd), vd, parse_iso_date(vd), r, nd)

parse_entry(ntry) ==
    entry_dates(read_date_choice(ntry, "BookgDt"), read_date_choice(ntry, "ValDt"),
                child_any(ntry, "NtryRef"), child_any(ntry, "NtryDtls"))

\* One round of the loop: r is what parse_entry returned for the Ntry, rest what
\* the loop does with the children after it.  The entries parsed before a
\* throwing one are lost with the Statement.
push_entry(r, rest, ordinal) ==
    IF r.threw THEN [threw |-> TRUE, entries |-> <<>>]
    ELSE [threw |-> rest.threw,
          entries |-> <<[r.e EXCEPT !.importOrdinal = ordinal]>> \o rest.entries]

\* Mutant: the counter advances on every child of the statement.
RECURSIVE parse_entries_count_all(_, _, _)
parse_entries_count_all(stmt, i, ordinal) ==
    IF i > Len(stmt.kids) THEN [threw |-> FALSE, entries |-> <<>>]
    ELSE IF ~isln(stmt.kids[i], "Ntry") THEN parse_entries_count_all(stmt, i + 1, ordinal + 1)
    ELSE push_entry(parse_entry(stmt.kids[i]),
                    parse_entries_count_all(stmt, i + 1, ordinal + 1), ordinal)

\* parse_statement, the loop over the Ntry children from child i: [threw, entries].
RECURSIVE parse_entries(_, _, _)
parse_entries(stmt, i, ordinal) ==
    IF i > Len(stmt.kids) THEN [threw |-> FALSE, entries |-> <<>>]
    ELSE IF ~isln(stmt.kids[i], "Ntry") THEN parse_entries(stmt, i + 1, ordinal)
    ELSE push_entry(parse_entry(stmt.kids[i]), parse_entries(stmt, i + 1, ordinal + 1), ordinal)

\* The number of Bal children from child i on.
RECURSIVE count_balances(_, _)
count_balances(stmt, i) ==
    IF i > Len(stmt.kids) THEN 0
    ELSE (IF isln(stmt.kids[i], "Bal") THEN 1 ELSE 0) + count_balances(stmt, i + 1)

statement_of(stmt, r) ==
    [threw |-> r.threw,
     s |-> [id       |-> child_text(stmt, "Id"),
            balances |-> count_balances(stmt, 1),
            entries  |-> r.entries]]

\* parse_statement: [threw, s].  Of the balances only their number is kept.
parse_statement(stmt) == statement_of(stmt, parse_entries(stmt, 1, 0))

is_statement_name(n) == isln(n, "Stmt") \/ isln(n, "Ntfctn") \/ isln(n, "Rpt")

\* Parser::parse_doc, the loop over the payload's children from child i, r being
\* what parse_statement returned for child i: [threw, statements], statements
\* being out.statements when the loop ends or when the exception leaves it.
RECURSIVE parse_statements(_, _, _)
RECURSIVE push_statement(_, _, _, _)
push_statement(r, pnode, i, acc) ==
    IF r.threw THEN [threw |-> TRUE, statements |-> acc]
    ELSE parse_statements(pnode, i + 1, Append(acc, r.s))

parse_statements(pnode, i, acc) ==
    IF i > Len(pnode.kids) THEN [threw |-> FALSE, statements |-> acc]
    ELSE IF ~is_statement_name(pnode.kids[i]) THEN parse_statements(pnode, i + 1, acc)
    ELSE push_statement(parse_statement(pnode.kids[i]), pnode, i, acc)

set_error(err0, msg) == IF err0 = None THEN None ELSE Some(msg)

\* What a call of Parser::parse_string leaves: ret is "true", "false" or "threw"
\* (an exception left the call), out the caller's Document, err the caller's
\* error string (None when error == nullptr), payload what find_payload returned.
parsed(p, kind, r, err0) ==
    [ret |-> IF r.threw THEN "threw" ELSE "true",
     out |-> [kind |-> kind, statements |-> r.statements],
     err |-> err0, payload |-> p]

unsupported(p, out0, err0) ==
    [ret |-> "false", out |-> [out0 EXCEPT !.kind = "Unknown"],
     err |-> set_error(err0, "Unsupported CAMT root"), payload |-> p]

\* pugi::xml_node(): the null node has an empty name and no children.
null_node == El(<<"">>, <<>>, <<>>)

element_of(n) == IF n = None THEN null_node ELSE n[1]

\* Mutant: the statements of the output are dropped before the new ones.
doc_of_kind_cleared(p, pl, kind, out0, err0) ==
    IF kind = "Unknown" THEN unsupported(p, out0, err0)
    ELSE parsed(p, kind, parse_statements(element_of(pl), 1, <<>>), err0)

\* parse_doc from detect_kind on: p is the path find_payload returned, pl the
\* payload element (None for the null node).
doc_of_kind(p, pl, kind, out0, err0) ==
    IF kind = "Unknown" THEN unsupported(p, out0, err0)
    ELSE parsed(p, kind, parse_statements(element_of(pl), 1, out0.statements), err0)

doc_of_payload(p, pl, out0, err0) == doc_of_kind(p, pl, detect_kind(pl), out0, err0)

doc_of_path(root, p, out0, err0) ==
    doc_of_payload(p, IF p = None THEN None ELSE Some(node_at(root, p[1])), out0, err0)

parse_doc(root, out0, err0) ==
    IF root = None
    THEN [ret |-> "false", out |-> out0, err |-> set_error(err0, "Empty document"),
          payload |-> None]
    ELSE doc_of_path(root[1], find_payload(root[1]), out0, err0)

parse_string(in) ==
    IF ~in.loaded
    THEN [ret |-> "false", out |-> in.out, err |-> set_error(in.err, "XML parse error"),
          payload |-> None]
    ELSE parse_doc(in.root, in.out, in.err)

(***************************************************************************)
(* The documents of the XML specification.                                  *)
(***************************************************************************)
MaxKids == 2

MaxDtlsKids == 3

MaxStmtKids == 3

SeqsUpTo(S, n) == UNION {[1..k -> S] : k \in 0..n}

D_GOOD == <<"2", "0", "2", "5", "-", "1", "0", "-", "0", "8">>

D_SHORT == <<"2", "0", "2", "5", "-", "1", "0">>

D_NOTDATE == <<"n", "o", "t", "-", "a", "-", "d", "a", "t", "e">>

D_SLASH == <<"2", "0", "2", "5", "/", "1", "0", "/", "0", "8">>

D_BLANK == <<" ", "2", "0", "2", "5", "-", "1", "0", "-", "0", "8", " ">>

D_TM == <<"2", "0", "2", "5", "-", "1", "0", "-", "0", "8", "T", "1", "2", ":", "0", "0", ":", "0", "0">>

XmlDateTexts == {D_GOOD, D_SHORT, D_NOTDATE, D_SLASH, D_BLANK, <<>>}

XmlBookgDt ==
    {None, Some(Node("BookgDt", <<Leaf("DtTm", D_TM)>>)), Some(Leaf("BookgDt", D_GOOD)),
     Some(Node("BookgDt", <<Leaf("DtTm", D_SHORT), Leaf("Dt", D_GOOD)>>))}
    \cup {Some(Node("BookgDt", <<Leaf("Dt", d)>>)) : d \in XmlDateTexts}

XmlValDt ==
    {None, Some(Node("ValDt", <<Leaf("Dt", D_GOOD)>>)),
     Some(Node("ValDt", <<Leaf("Dt", D_NOTDATE)>>)),
     Some(Node("ValDt", <<Leaf("Dt", D_SHORT)>>))}

\* An Ntry element: NtryRef, then the optional BookgDt, ValDt, and the NtryDtls.
Ntry(ref, bk, val, dtls) == Node("Ntry", <<Leaf("NtryRef", ref)>> \o bk \o val \o dtls)

TxDtls(e2e) == Node("TxDtls", <<Node("Refs", <<Leaf("EndToEndId", e2e)>>)>>)

GoodBookgDt == Some(Node("BookgDt", <<Leaf("Dt", D_GOOD)>>))

XmlEntriesDates == {Ntry(<<"D">>, bk, val, <<>>) : bk \in XmlBookgDt, val \in XmlValDt}

XmlDtlsKid == {TxDtls(<<"1">>), TxDtls(<<"2">>), Node("Btch", <<>>)}

XmlEntriesDtls ==
    {Ntry(<<"T">>, GoodBookgDt, None, <<Node("NtryDtls", k)>>) :
        k \in SeqsUpTo(XmlDtlsKid, MaxDtlsKids)}
    \cup {Ntry(<<"U">>, GoodBookgDt, None,
               <<Node("NtryDtls", <<TxDtls(<<"1">>)>>),
                 Node("NtryDtls", <<TxDtls(<<"2">>), TxDtls(<<"1">>)>>)>>)}

NtryA == Ntry(<<"A">>, GoodBookgDt, None, <<>>)

NtryB ==
    Ntry(<<"B">>, GoodBookgDt, None,
         <<Node("NtryDtls", <<Node("Btch", <<>>), TxDtls(<<"1">>), TxDtls(<<"2">>)>>)>>)

NtryBad == Ntry(<<"C">>, Some(Node("BookgDt", <<Leaf("Dt", D_NOTDATE)>>)), None, <<>>)

XmlStmtKid == {Node("Bal", <<>>), Leaf("Id", <<"S">>), NtryA, NtryB, NtryBad}

XmlStatements ==
    {Node("Stmt", k) : k \in SeqsUpTo(XmlStmtKid, MaxStmtKids)}
    \cup {Node("Stmt", <<e>>) : e \in XmlEntriesDates \cup XmlEntriesDtls}

XmlPayloadKid ==
    {Node("GrpHdr", <<>>),
     Node("Stmt", <<Leaf("Id", <<"1">>), NtryA>>),
     Node("Rpt", <<Leaf("Id", <<"2">>), NtryB, Node("Bal", <<>>), NtryA>>),
     El(<<"ns", "Ntfctn">>, <<>>, <<Leaf("Id", <<"3">>), NtryBad>>),
     Node("Ntry", <<>>)}

\* Documents whose payload is the only child of Document.
XmlContentDocs ==
    {Node("Document", <<Node("BkToCstmrStmt", <<s>>)>>) : s \in XmlStatements}
    \cup {Node("Document", <<Node("BkToCstmrAcctRpt", k)>>) :
            k \in SeqsUpTo(XmlPayloadKid, MaxKids)}

XmlWrapped ==
    {Node(p, <<>>) : p \in PayloadNames}
    \cup {Node("Wrap", <<Node(p, <<>>)>>) : p \in PayloadNames}
    \cup {Node("Other", <<>>)}

XmlRootNames ==
    {<<"Document">>, <<"ns", "Document">>, <<"Wrap">>, <<"BkToCstmrStmt">>,
     <<"BkToCstmrDbtCdtNtfctn">>, <<"ns", "BkToCstmrAcctRpt">>}

\* Documents that differ in where payload-named elements stand.
XmlShapeDocs == {El(r, <<>>, k) : r \in XmlRootNames, k \in SeqsUpTo(XmlWrapped, MaxKids)}

EmptyDocument == [kind |-> "Unknown", statements |-> <<>>]

\* The Document an earlier successful parse_string call filled.
FilledDocument ==
    parse_doc(Some(Node("BkToCstmrStmt", <<Node("Stmt", <<NtryB, NtryA>>)>>)),
              EmptyDocument, None).out

XmlInputs ==
    {[loaded |-> TRUE, root |-> Some(d), out |-> o, err |-> e] :
        d \in XmlContentDocs \cup XmlShapeDocs,
        o \in {EmptyDocument, FilledDocument}, e \in {None, Some("")}}
    \cup {[loaded |-> l, root |-> None, out |-> o, err |-> e] :
            l \in BOOLEAN, o \in {EmptyDocument, FilledDocument}, e \in {None, Some("")}}

XmlIdle ==
    /\ xmlIn = None
    /\ xmlRes = None
    /\ xmlPc = "idle"

XmlInit ==
    /\ xmlIn \in XmlInputs
    /\ xmlRes = None
    /\ xmlPc = "input"

\* Parser::parse_string(xml, out, error)
ParseString ==
    /\ xmlPc = "input"
    /\ xmlRes' = parse_string(xmlIn)
    /\ xmlPc' = "done"
    /\ UNCHANGED xmlIn

XmlNext == ParseString

(***************************************************************************)
(* CSV export (camt_csv.hpp): normalize_field, normalize_or_accumulate_row, *)
(* csv_escape, export_entries_csv with its write_row.  Texts are sequences  *)
(* of characters; a currency code and a balance type are kept as one value. *)
(***************************************************************************)
\* enum class ExportField, in declaration order (to_index is the position - 1)
ExportFields ==
    <<"BookingDate", "ValueDate", "Amount", "CreditDebit", "Currency",
      "CounterpartyName", "CounterpartyIBAN", "CounterpartyBIC", "RemittanceLine",
      "RemittanceStructured", "EndToEndId", "MandateId", "TxId", "BankRef",
      "AccountIBAN", "AccountBIC", "BkTxCd", "BookingCode", "Status", "Reversal",
      "RunningBalance", "ServicerBankName", "OpeningBalance", "ClosingBalance",
      "Primanota", "DTACode", "GVCCode", "SWIFTTransactionCode", "ChargesAmount",
      "ChargesCurrency", "ChargesIncluded", "EntryOrdinal", "TransactionOrdinal">>

\* The position of a field in a row.
FieldIndex(f) == CHOOSE i \in 1..Len(ExportFields) : ExportFields[i] = f

UpperLetters ==
    <<"A", "B", "C", "D", "E", "F", "G", "H", "I", "J", "K", "L", "M",
      "N", "O", "P", "Q", "R", "S", "T", "U", "V", "W", "X", "Y", "Z">>

LowerLetters ==
    <<"a", "b", "c", "d", "e", "f", "g", "h", "i", "j", "k", "l", "m",
      "n", "o", "p", "q", "r", "s", "t", "u", "v", "w", "x", "y", "z">>

tolower(c) ==
    IF \E i \in 1..Len(UpperLetters) : UpperLetters[i] = c
    THEN LowerLetters[CHOOSE i \in 1..Len(UpperLetters) : UpperLetters[i] = c]
    ELSE c

toupper(c) ==
    IF \E i \in 1..Len(LowerLetters) : LowerLetters[i] = c
    THEN UpperLetters[CHOOSE i \in 1..Len(LowerLetters) : LowerLetters[i] = c]
    ELSE c

\* ' ', \t, \n, \r, \f, \v ("VT" stands for the byte 0x0B)
IsAsciiSpace(c) == c \in {" ", "\t", "\n", "\r", "\f", "VT"}

\* normalize_freetext, the ASCII build: blanks dropped, A-Z lowered.
normalize_freetext(v) ==
    [i \in 1..Len(SelectSeq(v, LAMBDA c : ~IsAsciiSpace(c))) |->
        tolower(SelectSeq(v, LAMBDA c : ~IsAsciiSpace(c))[i])]

RECURSIVE ascii_trim_left(_)
ascii_trim_left(s) ==
    IF s # <<>> /\ IsAsciiSpace(Head(s)) THEN ascii_trim_left(Tail(s)) ELSE s

RECURSIVE ascii_trim_right(_)
ascii_trim_right(s) ==
    IF s # <<>> /\ IsAsciiSpace(s[Len(s)])
    THEN ascii_trim_right(SubSeq(s, 1, Len(s) - 1))
    ELSE s

ascii_trim(s) == ascii_trim_right(ascii_trim_left(s))

ascii_strip_all_spaces(s) == SelectSeq(s, LAMBDA c : ~IsAsciiSpace(c))

ascii_upper_preserve_utf8(s) == [i \in 1..Len(s) |-> toupper(s[i])]

normalize_field(f, v) ==
    IF f \in {"RemittanceLine", "RemittanceStructured", "CounterpartyName"}
    THEN normalize_freetext(v)
    ELSE IF f \in {"EndToEndId", "MandateId", "TxId", "BankRef", "Primanota", "AccountIBAN",
                   "CounterpartyIBAN", "AccountBIC", "CounterpartyBIC"}
    THEN ascii_upper_preserve_utf8(ascii_strip_all_spaces(v))
    ELSE IF f \in {"Currency", "ChargesCurrency", "CreditDebit", "BkTxCd", "BookingCode",
                   "DTACode", "GVCCode", "SWIFTTransactionCode"}
    THEN ascii_upper_preserve_utf8(ascii_trim(v))
    ELSE ascii_trim(v)

\* Mutant: the canonical value of a selected field is written in any case.
normalize_row_overwrite(row, fields, includeMode) ==
    [i \in 1..Len(row) |->
        IF /\ i <= Len(ExportFields)
           /\ (fields = {} \/ (includeMode <=> ExportFields[i] \in fields))
        THEN [first |-> row[i].first, second |-> normalize_field(ExportFields[i], row[i].first)]
        ELSE row[i]]

\* normalize_or_accumulate_row without accumulator: the canonical value of a
\* selected field is filled from the display value where it is empty.
normalize_row(row, fields, includeMode) ==
    [i \in 1..Len(row) |->
        IF /\ i <= Len(ExportFields)
           /\ (fields = {} \/ (includeMode <=> ExportFields[i] \in fields))
           /\ row[i].second = <<>>
        THEN [first |-> row[i].first, second |-> normalize_field(ExportFields[i], row[i].first)]
        ELSE row[i]]

\* write_row's norm_fields
NormFields ==
    {"Currency", "CounterpartyName", "CounterpartyIBAN", "CounterpartyBIC", "EndToEndId",
     "MandateId", "TxId", "BankRef", "AccountIBAN", "AccountBIC", "BkTxCd", "BookingCode",
     "Status", "ServicerBankName", "Primanota", "DTACode", "GVCCode",
     "SWIFTTransactionCode", "ChargesCurrency"}

\* csv_escape: every '"' doubled ("DQ" stands for the double quote).
RECURSIVE double_quotes(_)
double_quotes(s) ==
    IF s = <<>> THEN <<>>
    ELSE (IF Head(s) = "DQ" THEN <<"DQ", "DQ">> ELSE <<Head(s)>>) \o double_quotes(Tail(s))

csv_escape(s, delimiter) ==
    IF \E i \in 1..Len(s) : s[i] \in {delimiter, "DQ", "\n", "\r"}
    THEN <<"DQ">> \o double_quotes(s) \o <<"DQ">>
    ELSE double_quotes(s)

\* One line of the stream: the display values, escaped, D between them.
RECURSIVE csv_line(_, _, _)
csv_line(row, i, D) ==
    IF i > Len(row) THEN <<>>
    ELSE csv_escape(row[i].first, D) \o (IF i = Len(row) THEN <<"\n">> ELSE <<D>>)
         \o csv_line(row, i + 1, D)

\* The header row; its display values are written to the stream unescaped.
header_row(opt) ==
    [i \in 1..Len(ExportFields) |->
        [first  |-> IF ExportFields[i] = "CreditDebit"
                    THEN (IF opt.credit_as_bool THEN "IsCredit" ELSE "CreditDebit")
                    ELSE IF ExportFields[i] = "TransactionOrdinal" THEN "TxOrdinal"
                    ELSE ExportFields[i],
         second |-> ""]]

\* The stream holds a header line as one token per column, D between them.
RECURSIVE header_line(_, _, _)
header_line(header, i, D) ==
    IF i > Len(header) THEN <<"\n">>
    ELSE <<header[i].first>> \o (IF i < Len(header) THEN <<D>> ELSE <<>>)
         \o header_line(header, i + 1, D)

\* The characters of a currency code.
ccy_text(c) ==
    IF c = "EUR" THEN <<"E", "U", "R">>
    ELSE IF c = "USD" THEN <<"U", "S", "D">>
    ELSE IF c = "JPY" THEN <<"J", "P", "Y">>
    ELSE <<>>

\* find_first_of / find_last_of over st.balances: the optional Balance.
RECURSIVE first_balance_of(_, _, _)
first_balance_of(balances, codes, i) ==
    IF i > Len(balances) THEN None
    ELSE IF balances[i].type \in codes THEN Some(balances[i])
    ELSE first_balance_of(balances, codes, i + 1)

RECURSIVE last_balance_of(_, _, _)
last_balance_of(balances, codes, i) ==
    IF i < 1 THEN None
    ELSE IF balances[i].type \in codes THEN Some(balances[i])
    ELSE last_balance_of(balances, codes, i - 1)

\* balance_number_str
balance_number_str(st, bal) ==
    IF bal = None THEN <<>>
    ELSE fmt_amount(
            [currency |-> IF bal[1].amount.currency = "" THEN st.account.currency
                          ELSE bal[1].amount.currency,
             minor    |-> IF ~bal[1].hasCdtDbtInd THEN bal[1].amount.minor
                          ELSE IF bal[1].isCredit THEN Abs(bal[1].amount.minor)
                          ELSE -Abs(bal[1].amount.minor)])

\* interim_for_entry
RECURSIVE interim_for_entry(_, _, _)
interim_for_entry(balances, e, i) ==
    IF i > Len(balances) THEN None
    ELSE IF /\ balances[i].type \in {"ITBD", "ITAV"}
            /\ \/ (e.bookingDate # <<>> /\ balances[i].date = e.bookingDate)
               \/ (e.valueDate # <<>> /\ balances[i].date = e.valueDate)
    THEN Some(balances[i])
    ELSE interim_for_entry(balances, e, i + 1)

NOTPROVIDED == <<"N", "O", "T", "P", "R", "O", "V", "I", "D", "E", "D">>

isProvided(s) == s # <<>> /\ s # NOTPROVIDED

\* write_row 1): the sign source is the Tx where it has an indicator.
credit_of(e, tx) ==
    IF tx # None /\ tx[1].hasCdtDbtInd THEN tx[1].isCredit ELSE e.isCredit

\* Mutant: a reversal does not flip the direction.
effective_credit_no_flip(e, tx) == credit_of(e, tx)

effective_credit(e, tx) == IF e.reversal THEN ~credit_of(e, tx) ELSE credit_of(e, tx)

cp_name(ultimate, direct, prefer_ultimate) ==
    IF prefer_ultimate
    THEN (IF isProvided(ultimate) THEN ultimate ELSE direct)
    ELSE (IF isProvided(direct) THEN direct ELSE ultimate)

\* write_row 2): [name, iban, bic] of the counterparty
counterparty(tx, effectiveCredit, opt) ==
    IF tx = None THEN [name |-> <<>>, iban |-> <<>>, bic |-> <<>>]
    ELSE IF effectiveCredit
    THEN [name |-> cp_name(tx[1].parties.ultimateDebtor, tx[1].parties.debtor,
                           opt.prefer_ultimate_counterparty),
          iban |-> tx[1].parties.debtorIban,
          bic  |-> tx[1].agents.debtorBic]
    ELSE [name |-> cp_name(tx[1].parties.ultimateCreditor, tx[1].parties.creditor,
                           opt.prefer_ultimate_counterparty),
          iban |-> tx[1].parties.creditorIban,
          bic  |-> tx[1].agents.creditorBic]

\* write_row 3): the unstructured lines joined for display and for the
\* canonical value ("GS" stands for the byte 0x1D).
RECURSIVE remit_first(_, _, _)
remit_first(parts, i, disp_sep) ==
    IF i > Len(parts) THEN <<>>
    ELSE (IF i > 1 THEN disp_sep ELSE <<>>) \o parts[i] \o remit_first(parts, i + 1, disp_sep)

RECURSIVE remit_second(_, _)
remit_second(parts, i) ==
    IF i > Len(parts) THEN <<>>
    ELSE (IF i > 1 THEN <<"GS">> ELSE <<>>) \o normalize_field("RemittanceLine", parts[i])
         \o remit_second(parts, i + 1)

structured_base(tx) ==
    IF tx = None THEN <<>>
    ELSE IF tx[1].remittance.structured = <<>> THEN <<>>
    ELSE IF tx[1].remittance.structured[1].creditorRef # <<>>
    THEN tx[1].remittance.structured[1].creditorRef
    ELSE tx[1].remittance.structured[1].additionalInfo

unstructured_of(tx) == IF tx = None THEN <<>> ELSE tx[1].remittance.unstructured

\* write_row 4): domain:family:subFamily
bk_of(tx) ==
    IF tx = None THEN <<>>
    ELSE IF tx[1].bankTxCode.domain = <<>> /\ tx[1].bankTxCode.family = <<>>
            /\ tx[1].bankTxCode.subFamily = <<>>
    THEN <<>>
    ELSE tx[1].bankTxCode.domain \o <<":">> \o tx[1].bankTxCode.family \o <<":">>
         \o tx[1].bankTxCode.subFamily

prtry_code(tx) == IF tx = None THEN <<>> ELSE tx[1].proprietaryBankTxCode

\* write_row 5): TxAmt where the Tx has one, the entry's amount otherwise
\* Mutant: the entry's amount even where the Tx has its own.
amount_of_entry(e, tx) == e.amount

amount_of(e, tx) ==
    IF tx # None /\ tx[1].txAmount # None THEN tx[1].txAmount[1] ELSE e.amount

run_ccy(runCcy, amt, e) ==
    IF runCcy # "" THEN runCcy
    ELSE IF amt.currency # "" THEN amt.currency
    ELSE e.amount.currency

\* Mutant: a debit is added like a credit.
signed_minor_unsigned(amt, effectiveCredit) == Abs(amt.minor)

\* write_row 6)
signed_minor(amt, effectiveCredit) == IF effectiveCredit THEN Abs(amt.minor) ELSE -Abs(amt.minor)

\* write_row 7): [gvc, primanota] cut out of dta_code at its '+' signs; p and q
\* are the positions of the first and the second '+' (0 for npos).
\* Mutant: the GVC is the whole text behind the first '+'.
split_at_whole_rest(c, p, q) ==
    IF p = 0 THEN [gvc |-> <<>>, primanota |-> <<>>]
    ELSE [gvc |-> SubSeq(c, p + 1, Len(c)),
          primanota |-> IF q = 0 THEN <<>> ELSE SubSeq(c, q + 1, Len(c))]

split_at(c, p, q) ==
    IF p = 0 THEN [gvc |-> <<>>, primanota |-> <<>>]
    ELSE IF q = 0 THEN [gvc |-> SubSeq(c, p + 1, Len(c)), primanota |-> <<>>]
    ELSE [gvc |-> SubSeq(c, p + 1, q - 1), primanota |-> SubSeq(c, q + 1, Len(c))]

split_from(c, p) == split_at(c, p, IF p = 0 THEN 0 ELSE find_first(c, "+", p + 1))

split_dta_code(c) == split_from(c, find_first(c, "+", 1))

\* trim_copy + toupper
upper_trim(s) == ascii_upper_preserve_utf8(ascii_trim(s))

\* The line of the embedded table of GVC codes that the source names.
GvcExampleMap ==
    {[domain |-> <<"P", "M", "N", "T">>, family |-> <<"R", "C", "D", "T">>, variant |-> <<"V", "C", "O", "M">>, crFlag |-> "C",
      iso |-> <<"0", "5", "8">>]}

gvc_matches(r, domain, family, variant, crFlag) ==
    /\ r.domain = domain /\ r.family = family /\ r.variant = variant /\ r.crFlag = crFlag

lookup_key(map, domain, family, variant, crFlag) ==
    IF \E r \in map : gvc_matches(r, domain, family, variant, crFlag)
    THEN (CHOOSE r \in map : gvc_matches(r, domain, family, variant, crFlag)).iso
    ELSE <<>>

lookup_gvc(map, domain, family, variant, crFlag) ==
    lookup_key(map, upper_trim(domain), upper_trim(family), upper_trim(variant), crFlag)

\* The GVC code: the part of dta_code after its first '+', the table otherwise.
gvc_of(tx, cut, credit, map) ==
    IF cut.gvc # <<>> \/ tx = None THEN cut.gvc
    ELSE lookup_gvc(map, tx[1].bankTxCode.domain, tx[1].bankTxCode.family,
                    tx[1].bankTxCode.subFamily, IF credit THEN "C" ELSE "D")

\* write_row 8): the opening and the closing balance of the row
\* Mutant: the opening balance of the statement on every row.
opening_str_every_row(st, e, c, rowIndex) ==
    IF c.openGlobalStr # <<>> THEN c.openGlobalStr
    ELSE IF interim_for_entry(st.balances, e, 1) # None
    THEN balance_number_str(st, interim_for_entry(st.balances, e, 1))
    ELSE <<" ">>

opening_str(st, e, c, rowIndex) ==
    IF c.openGlobalStr # <<>>
    THEN (IF rowIndex = 0 THEN c.openGlobalStr ELSE <<" ">>)
    ELSE IF interim_for_entry(st.balances, e, 1) # None
    THEN balance_number_str(st, interim_for_entry(st.balances, e, 1))
    ELSE <<" ">>

closing_str(st, e, c, rowIndex) ==
    IF c.closeGlobalStr # <<>>
    THEN (IF rowIndex + 1 = c.totalRows THEN c.closeGlobalStr ELSE <<" ">>)
    ELSE IF interim_for_entry(st.balances, e, 1) # None
    THEN balance_number_str(st, interim_for_entry(st.balances, e, 1))
    ELSE <<" ">>

\* Mutant: the flag of the transaction wins over the record's.
charge_credit_tx_first(e, tx, rec) ==
    IF tx.hasCdtDbtInd THEN tx.isCredit
    ELSE IF rec.hasCdtDbtInd THEN rec.isCredit
    ELSE e.isCredit

charge_credit(e, tx, rec) ==
    IF rec.hasCdtDbtInd THEN rec.isCredit
    ELSE IF tx.hasCdtDbtInd THEN tx.isCredit
    ELSE e.isCredit

\* sum_charges_view, the loop over tx.charges from record i: [amount, included]
RECURSIVE sum_charges_from(_, _, _, _)
sum_charges_from(e, tx, i, out) ==
    IF i > Len(tx.charges) THEN out
    ELSE IF tx.charges[i].amount.currency = "" THEN sum_charges_from(e, tx, i + 1, out)
    ELSE sum_charges_from(e, tx, i + 1,
            [amount |->
                [currency |-> IF out.amount.currency = "" THEN tx.charges[i].amount.currency
                              ELSE out.amount.currency,
                 minor |-> out.amount.minor
                           + (IF charge_credit(e, tx, tx.charges[i]) # e.reversal
                              THEN Abs(tx.charges[i].amount.minor)
                              ELSE -Abs(tx.charges[i].amount.minor))],
             included |-> out.included \/ tx.charges[i].included])

sum_charges_view(e, tx) ==
    IF tx = None THEN [amount |-> ZeroAmount, included |-> FALSE]
    ELSE sum_charges_from(e, tx[1], 1, [amount |-> ZeroAmount, included |-> FALSE])

Pair(first, second) == [first |-> first, second |-> second]

Same(s) == [first |-> s, second |-> s]

Bit(b) == IF b THEN <<"1">> ELSE <<"0">>

credit_text(opt, isCredit) ==
    IF opt.credit_as_bool THEN Bit(isCredit)
    ELSE IF isCredit THEN <<"C", "R", "D", "T">> ELSE <<"D", "B", "I", "T">>

\* The row literal of write_row.  v holds what write_row computed before it:
\* credit, effectiveCredit, amt (before the sign is applied), runCcy and
\* runningMinor (both updated), cp, cut (gvc, primanota), gvc, charges.
row_of(st, e, tx, c, rowIndex, v) ==
    <<Pair(e.bookingDate, IntToStr(e.bookingDateInt)),
      Pair(e.valueDate, IntToStr(e.valueDateInt)),
      Pair(fmt_amount([currency |-> v.amt.currency,
                       minor |-> IF c.opt.signed_amount
                                 THEN signed_minor(v.amt, v.effectiveCredit)
                                 ELSE Abs(v.amt.minor)]),
           fmt_amount([currency |-> v.amt.currency, minor |-> Abs(v.amt.minor)])),
      Pair(credit_text(c.opt, IF c.opt.use_effective_credit THEN v.effectiveCredit
                              ELSE v.credit),
           Bit(v.credit)),
      Pair(ccy_text(IF st.account.currency # "" THEN st.account.currency
                    ELSE IF v.amt.currency # "" THEN v.amt.currency
                    ELSE v.runCcy), <<>>),
      Pair(v.cp.name, <<>>),
      Pair(v.cp.iban, <<>>),
      Pair(v.cp.bic, <<>>),
      Pair(remit_first(unstructured_of(tx), 1, c.opt.remittance_separator),
           remit_second(unstructured_of(tx), 1)),
      Pair(structured_base(tx), normalize_field("RemittanceStructured", structured_base(tx))),
      Pair(IF tx = None THEN <<>> ELSE tx[1].refs.endToEndId, <<>>),
      Pair(IF tx = None THEN <<>> ELSE tx[1].refs.mandateId, <<>>),
      Pair(IF tx = None THEN <<>> ELSE tx[1].refs.txId, <<>>),
      Pair(IF tx # None /\ tx[1].refs.acctSvcrRef # <<>> THEN tx[1].refs.acctSvcrRef
           ELSE e.acctSvcrRef, <<>>),
      Pair(IF st.account.iban # <<>> THEN st.account.iban ELSE st.account.other, <<>>),
      Pair(st.account.servicerBic, <<>>),
      Pair(bk_of(tx), <<>>),
      Pair(prtry_code(tx), <<>>),
      Pair(e.status, <<>>),
      Same(Bit(e.reversal)),
      Same(fmt_amount([currency |-> v.runCcy, minor |-> v.runningMinor])),
      Pair(st.account.servicerName, <<>>),
      Same(opening_str(st, e, c, rowIndex)),
      Same(closing_str(st, e, c, rowIndex)),
      Pair(v.cut.primanota, <<>>),
      Pair(prtry_code(tx), <<>>),
      Pair(v.gvc, <<>>),
      Pair(SubSeq(prtry_code(tx), 1, Min2(4, Len(prtry_code(tx)))), <<>>),
      Same(fmt_amount(v.charges.amount)),
      Pair(ccy_text(v.charges.amount.currency), <<>>),
      Same(Bit(v.charges.included)),
      Same(IF e.importOrdinal >= 0 THEN IntToStr(e.importOrdinal) ELSE <<>>),
      Same(IF tx = None THEN <<>> ELSE IntToStr(tx[1].importOrdinal))>>

\* The end of write_row: the row goes to the stream and, normalized, to the
\* rows; s is the state of the statement's loop (rowIndex, runningMinor,
\* runCcy) with the stream and the rows written so far.
push_row(c, s, v, row) ==
    [rowIndex     |-> s.rowIndex + 1,
     runningMinor |-> v.runningMinor,
     runCcy       |-> v.runCcy,
     os   |-> IF c.hasOs THEN s.os \o csv_line(row, 1, c.opt.delimiter) ELSE s.os,
     rows |-> IF c.hasV THEN Append(s.rows, normalize_row(row, NormFields, TRUE)) ELSE s.rows]

write_row_values(st, e, tx, c, s, v) == push_row(c, s, v, row_of(st, e, tx, c, s.rowIndex, v))

\* Mutant: the running balance accumulates the displayed amount.
write_row_codes_displayed(st, e, tx, c, s, credit, effectiveCredit, amt, cut) ==
    write_row_values(st, e, tx, c, s,
        [credit          |-> credit,
         effectiveCredit |-> effectiveCredit,
         amt             |-> amt,
         runCcy          |-> run_ccy(s.runCcy, amt, e),
         runningMinor    |-> s.runningMinor
                             + (IF c.opt.signed_amount THEN signed_minor(amt, effectiveCredit)
                                ELSE Abs(amt.minor)),
         cp              |-> counterparty(tx, effectiveCredit, c.opt),
         cut             |-> cut,
         gvc             |-> gvc_of(tx, cut, credit, c.gvcMap),
         charges         |-> sum_charges_view(e, tx)])

write_row_codes(st, e, tx, c, s, credit, effectiveCredit, amt, cut) ==
    write_row_values(st, e, tx, c, s,
        [credit          |-> credit,
         effectiveCredit |-> effectiveCredit,
         amt             |-> amt,
         runCcy          |-> run_ccy(s.runCcy, amt, e),
         runningMinor    |-> s.runningMinor + signed_minor(amt, effectiveCredit),
         cp              |-> counterparty(tx, effectiveCredit, c.opt),
         cut             |-> cut,
         gvc             |-> gvc_of(tx, cut, credit, c.gvcMap),
         charges         |-> sum_charges_view(e, tx)])

\* write_row(e, tx) of the statement st
write_row(st, e, tx, c, s) ==
    write_row_codes(st, e, tx, c, s, credit_of(e, tx), effective_credit(e, tx),
                    amount_of(e, tx), split_dta_code(prtry_code(tx)))

\* Mutant: only the first sub-transaction of an entry is written.
RECURSIVE write_transactions_first_only(_, _, _, _, _)
write_transactions_first_only(st, e, j, c, s) ==
    IF j > 1 THEN s
    ELSE write_transactions_first_only(st, e, j + 1, c,
                                       write_row(st, e, Some(e.transactions[j]), c, s))

\* The loop over the transactions of an entry, from transaction j.
RECURSIVE write_transactions(_, _, _, _, _)
write_transactions(st, e, j, c, s) ==
    IF j > Len(e.transactions) THEN s
    ELSE write_transactions(st, e, j + 1, c, write_row(st, e, Some(e.transactions[j]), c, s))

\* The loop over the entries of a statement, from entry i.
RECURSIVE write_entries(_, _, _, _)
write_entries(st, i, c, s) ==
    IF i > Len(st.entries) THEN s
    ELSE IF st.entries[i].transactions # <<>>
    THEN write_entries(st, i + 1, c, write_transactions(st, st.entries[i], 1, c, s))
    ELSE write_entries(st, i + 1, c, write_row(st, st.entries[i], None, c, s))

\* totalRows
RECURSIVE total_rows(_, _)
total_rows(entries, i) ==
    IF i > Len(entries) THEN 0
    ELSE (IF entries[i].transactions = <<>> THEN 1 ELSE Len(entries[i].transactions))
         + total_rows(entries, i + 1)

\* One round of the loop over doc.statements.
write_statement(st, in, out) ==
    write_entries(st, 1,
        [opt |-> in.opt, hasOs |-> in.hasOs, hasV |-> in.hasV, gvcMap |-> in.gvcMap,
         totalRows      |-> total_rows(st.entries, 1),
         openGlobalStr  |-> balance_number_str(st,
                                first_balance_of(st.balances, {"OPBD", "PRCD"}, 1)),
         closeGlobalStr |-> balance_number_str(st,
                                last_balance_of(st.balances, {"CLBD"}, Len(st.balances)))],
        [rowIndex |-> 0, runningMinor |-> 0, runCcy |-> st.account.currency,
         os |-> out.os, rows |-> out.rows])

RECURSIVE write_statements(_, _, _)
write_statements(in, k, out) ==
    IF k > Len(in.doc.statements) THEN [os |-> out.os, rows |-> out.rows]
    ELSE write_statements(in, k + 1, write_statement(in.doc.statements[k], in, out))

\* The byte order mark and the header ("EF", "BB", "BF" stand for the bytes).
write_header(in, os) ==
    [os   |-> IF in.hasOs /\ in.opt.include_header
              THEN os \o header_line(header_row(in.opt), 1, in.opt.delimiter)
              ELSE os,
     rows |-> IF in.hasV /\ in.opt.include_header THEN <<header_row(in.opt)>> ELSE <<>>]

\* export_entries_csv(doc, osPtr, vPtr, opt): [os, rows], the stream and the
\* ExportData (both empty before the call).  in.gvcMap is the table that
\* get_gvc_map() built from kGvcCsvEmbedded.
export_entries_csv(in) ==
    write_statements(in, 1,
        write_header(in, IF in.hasOs /\ in.opt.write_utf8_bom THEN <<"EF", "BB", "BF">>
                         ELSE <<>>))

(***************************************************************************)
(* The documents and options of the export specification.  A struct with    *)
(* one text member (Party.name, Agent.bic, AccountId.iban, Charges.records, *)
(* proprietaryBankTxCode.code) is the member itself.                        *)
(***************************************************************************)
MaxEntries == 2

MaxStatements == 2

NoParties ==
    [debtor |-> <<>>, ultimateDebtor |-> <<>>, debtorIban |-> <<>>,
     creditor |-> <<>>, ultimateCreditor |-> <<>>, creditorIban |-> <<>>]

NoRefs == [endToEndId |-> <<>>, mandateId |-> <<>>, txId |-> <<>>, acctSvcrRef |-> <<>>]

\* A TxDtls with every reference, both parties, remittance, codes and a charge.
TxFull ==
    [refs |-> [endToEndId |-> <<"e", "2", "e", " ", "1">>, mandateId |-> <<"m", "1">>, txId |-> <<"t", "1">>,
               acctSvcrRef |-> <<"r", "1">>],
     parties |-> [debtor |-> <<"B", "o", "b">>, ultimateDebtor |-> NOTPROVIDED,
                  debtorIban |-> <<"d", "e", " ", "3", "4">>,
                  creditor |-> <<"C", "a", "r", "l">>, ultimateCreditor |-> <<"D", "o", "r", "a">>,
                  creditorIban |-> <<"F", "R", "5", "6">>],
     agents |-> [debtorBic |-> <<"b", "i", "c", "d">>, creditorBic |-> <<"B", "I", "C", "C">>],
     remittance |-> [unstructured |-> <<<<"I", "n", "v", " ", "1">>, <<"R", "e", "f", " ", "A">>>>,
                     structured |-> <<[creditorRef |-> <<"R", "F", "1", "8">>, additionalInfo |-> <<"x">>]>>],
     bankTxCode |-> [domain |-> <<"P", "M", "N", "T">>, family |-> <<"R", "C", "D", "T">>, subFamily |-> <<"E", "S", "C", "T">>],
     proprietaryBankTxCode |-> <<"N", "M", "S", "C", "+", "2", "0", "1", "+", "7", "7">>,
     charges |-> <<[amount |-> [currency |-> "EUR", minor |-> 150], hasCdtDbtInd |-> FALSE,
                    isCredit |-> FALSE, included |-> TRUE]>>,
     txAmount |-> Some([currency |-> "EUR", minor |-> 1250]),
     hasCdtDbtInd |-> TRUE, isCredit |-> TRUE, importOrdinal |-> -1]

\* A TxDtls with bank transaction codes, a proprietary code that ends at its
\* '+' and a charge without direction; its GVC comes from the table.
TxBare ==
    [refs |-> NoRefs, parties |-> NoParties,
     agents |-> [debtorBic |-> <<>>, creditorBic |-> <<>>],
     remittance |-> [unstructured |-> <<>>, structured |-> <<>>],
     bankTxCode |-> [domain |-> <<"p", "m", "n", "t", " ">>, family |-> <<"R", "C", "D", "T">>, subFamily |-> <<"V", "C", "O", "M">>],
     proprietaryBankTxCode |-> <<"X", "+">>,
     charges |-> <<[amount |-> [currency |-> "EUR", minor |-> 40], hasCdtDbtInd |-> FALSE,
                    isCredit |-> FALSE, included |-> FALSE]>>,
     txAmount |-> None,
     hasCdtDbtInd |-> FALSE, isCredit |-> FALSE, importOrdinal |-> -1]

\* A debit TxDtls in another currency with three charges: one without
\* currency, one with a direction of its own, one negative.
TxDebit ==
    [refs |-> [NoRefs EXCEPT !.endToEndId = NOTPROVIDED],
     parties |-> [NoParties EXCEPT !.creditor = <<"E", "v", "e">>],
     agents |-> [debtorBic |-> <<>>, creditorBic |-> <<>>],
     remittance |-> [unstructured |-> <<<<"R", "e", "n", "t">>>>,
                     structured |-> <<[creditorRef |-> <<>>, additionalInfo |-> <<"n", "o", "t", "e">>]>>],
     bankTxCode |-> [domain |-> <<>>, family |-> <<>>, subFamily |-> <<>>],
     proprietaryBankTxCode |-> <<"1", "6", "6">>,
     charges |-> <<[amount |-> [currency |-> "", minor |-> 5], hasCdtDbtInd |-> TRUE,
                    isCredit |-> TRUE, included |-> TRUE],
                   [amount |-> [currency |-> "USD", minor |-> 30], hasCdtDbtInd |-> TRUE,
                    isCredit |-> TRUE, included |-> FALSE],
                   [amount |-> [currency |-> "EUR", minor |-> -20], hasCdtDbtInd |-> FALSE,
                    isCredit |-> TRUE, included |-> FALSE]>>,
     txAmount |-> Some([currency |-> "USD", minor |-> -700]),
     hasCdtDbtInd |-> TRUE, isCredit |-> FALSE, importOrdinal |-> -1]

\* The sub-transactions CRDT 100.00 EUR, with a proprietary code of four
\* parts, and DBIT 30.00 EUR, without proprietary code.
TxCrdt100 ==
    [TxBare EXCEPT !.txAmount = Some([currency |-> "EUR", minor |-> 10000]),
                   !.hasCdtDbtInd = TRUE, !.isCredit = TRUE,
                   !.proprietaryBankTxCode = <<"N", "+", "2", "+", "7", "+", "8">>]

TxDbit30 ==
    [TxBare EXCEPT !.txAmount = Some([currency |-> "EUR", minor |-> 3000]),
                   !.hasCdtDbtInd = TRUE, !.isCredit = FALSE,
                   !.proprietaryBankTxCode = <<>>]

\* The transactions with the ordinals parse_entry gives them.
Numbered(txs) == [j \in 1..Len(txs) |-> [txs[j] EXCEPT !.importOrdinal = j - 1]]

D_NEXT == <<"2", "0", "2", "5", "-", "1", "0", "-", "0", "9">>

ExpEntry(amount, isCredit, reversal, valueDate, txs) ==
    [amount |-> amount, isCredit |-> isCredit, reversal |-> reversal,
     bookingDate |-> D_GOOD, bookingDateInt |-> parse_iso_date(D_GOOD).v,
     valueDate |-> valueDate, valueDateInt |-> parse_iso_date(valueDate).v,
     status |-> <<"B", "O", "O", "K">>, acctSvcrRef |-> <<"p", " ", "9">>,
     transactions |-> Numbered(txs), importOrdinal |-> -1]

ExpEntries ==
    {ExpEntry([currency |-> "EUR", minor |-> 1000], TRUE, FALSE, D_NEXT, <<>>),
     ExpEntry([currency |-> "EUR", minor |-> 1250], FALSE, FALSE, <<>>, <<TxFull>>),
     ExpEntry([currency |-> "", minor |-> 900], TRUE, TRUE, D_GOOD, <<TxBare, TxDebit>>),
     ExpEntry([currency |-> "EUR", minor |-> 1250], TRUE, TRUE, D_GOOD, <<TxFull>>),
     ExpEntry([currency |-> "EUR", minor |-> 7000], TRUE, FALSE, D_GOOD,
              <<TxCrdt100, TxDbit30>>)}

ExpAccounts ==
    {[currency |-> "EUR", iban |-> <<"d", "e", " ", "1", "2">>, other |-> <<>>,
      servicerBic |-> <<"b", "a", "n", "k">>, servicerName |-> <<"B", "a", "n", "k", " ", "A", "G">>],
     [currency |-> "", iban |-> <<>>, other |-> <<"A", "C", "C", "9">>,
      servicerBic |-> <<>>, servicerName |-> <<>>]}

ExpBalance(type, minor, date) ==
    [type |-> type, amount |-> [currency |-> "", minor |-> minor], date |-> date,
     hasCdtDbtInd |-> TRUE, isCredit |-> FALSE]

ExpBalances ==
    {<<>>,
     <<ExpBalance("OPBD", 500, D_GOOD), ExpBalance("CLBD", 700, D_NEXT)>>,
     <<ExpBalance("ITBD", 300, D_NEXT)>>}

\* The entries with the ordinals parse_statement gives them.
ExpStatement(account, balances, entries) ==
    [account |-> account, balances |-> balances,
     entries |-> [i \in 1..Len(entries) |-> [entries[i] EXCEPT !.importOrdinal = i - 1]]]

\* An account in EUR with and without booked balances, an account without
\* currency with an interim balance.
ExpAccountBalances ==
    {ab \in ExpAccounts \X ExpBalances :
        (ab[1].currency = "") = (ab[2] # <<>> /\ ab[2][1].type = "ITBD")}

ExpStatements ==
    {ExpStatement(ab[1], ab[2], es) :
        ab \in ExpAccountBalances, es \in SeqsUpTo(ExpEntries, MaxEntries)}

\* The statements of the documents with several statements.
ExpFewStatements ==
    {ExpStatement(a,
                  IF a.currency = "" THEN <<>>
                  ELSE <<ExpBalance("PRCD", 400, D_GOOD), ExpBalance("OPBD", 500, D_GOOD),
                         ExpBalance("CLBD", 600, D_NEXT), ExpBalance("CLBD", 700, D_NEXT)>>,
                  es) :
        a \in ExpAccounts,
        es \in {<<ExpEntry([currency |-> "EUR", minor |-> 1000], TRUE, FALSE, D_NEXT, <<>>)>>,
                <<ExpEntry([currency |-> "", minor |-> 900], TRUE, TRUE, D_GOOD,
                           <<TxBare, TxDebit>>),
                  ExpEntry([currency |-> "EUR", minor |-> 1000], TRUE, FALSE, D_NEXT, <<>>)>>}}

ExpDocuments ==
    {[kind |-> "Camt053", statements |-> <<s>>] : s \in ExpStatements}
    \cup {[kind |-> "Camt052", statements |-> ss] :
            ss \in SeqsUpTo(ExpFewStatements, MaxStatements)}

\* ExportOptions{}
DefaultOptions ==
    [delimiter |-> ";", include_header |-> TRUE, write_utf8_bom |-> FALSE,
     signed_amount |-> TRUE, credit_as_bool |-> TRUE, remittance_separator |-> <<>>,
     use_effective_credit |-> FALSE, prefer_ultimate_counterparty |-> TRUE]

\* The default options and the options that differ from them in one member.
ExpOptions ==
    {DefaultOptions,
     [DefaultOptions EXCEPT !.delimiter = " "],
     [DefaultOptions EXCEPT !.include_header = FALSE],
     [DefaultOptions EXCEPT !.write_utf8_bom = TRUE],
     [DefaultOptions EXCEPT !.signed_amount = FALSE],
     [DefaultOptions EXCEPT !.credit_as_bool = FALSE],
     [DefaultOptions EXCEPT !.remittance_separator = <<" ", "|", " ">>],
     [DefaultOptions EXCEPT !.use_effective_credit = TRUE],
     [DefaultOptions EXCEPT !.prefer_ultimate_counterparty = FALSE]}

\* The embedded table is not part of the sources: it is an input, with or
\* without the line the source names.
ExpInputs ==
    {[doc |-> d, opt |-> o, hasOs |-> TRUE, hasV |-> TRUE, gvcMap |-> GvcExampleMap] :
        d \in ExpDocuments, o \in ExpOptions}
    \cup {[doc |-> d, opt |-> DefaultOptions, hasOs |-> os, hasV |-> ~os, gvcMap |-> {}] :
            d \in ExpDocuments, os \in BOOLEAN}

ExpIdle ==
    /\ expIn = None
    /\ expOut = None
    /\ expPc = "idle"

ExpInit ==
    /\ expIn \in ExpInputs
    /\ expOut = None
    /\ expPc = "input"

\* export_entries_csv(doc, osPtr, vPtr, opt)
ExportEntriesCsv ==
    /\ expPc = "input"
    /\ expOut' = export_entries_csv(expIn)
    /\ expPc' = "done"
    /\ UNCHANGED expIn

ExpNext == ExportEntriesCsv

(***************************************************************************)
(* sortExportData (camt_csv.hpp): the stable sort of the data rows and the  *)
(* running balance per account written after it.                            *)
(***************************************************************************)
\* The characters of the texts below in the order of their codes.
AsciiOrder ==
    <<" ", "+", "-", ".", "0", "1", "2", "3", "4", "5", "6", "7", "8", "9">>
    \o UpperLetters \o LowerLetters

CharCode(c) == CHOOSE i \in 1..Len(AsciiOrder) : AsciiOrder[i] = c

\* std::string operator<
RECURSIVE str_less(_, _)
str_less(a, b) ==
    IF b = <<>> THEN FALSE
    ELSE IF a = <<>> THEN TRUE
    ELSE IF Head(a) = Head(b) THEN str_less(Tail(a), Tail(b))
    ELSE CharCode(Head(a)) < CharCode(Head(b))

\* std::from_chars into an int64_t that starts as 0: k digits from s[i] on,
\* negated after a '-'; no digit, or a value out of range, leaves the 0.
from_chars_value(s, i, k, neg) ==
    IF k = 0 THEN 0
    ELSE IF neg
    THEN (IF DigitsValue(s, i, k) > -INT64_MIN THEN 0 ELSE -DigitsValue(s, i, k))
    ELSE (IF DigitsValue(s, i, k) > INT64_MAX THEN 0 ELSE DigitsValue(s, i, k))

\* sortExportData::to_i64 with d = 0
to_i64(s) ==
    IF s # <<>> /\ Head(s) = "-" THEN from_chars_value(s, 2, DigitRun(s, 2), TRUE)
    ELSE from_chars_value(s, 1, DigitRun(s, 1), FALSE)

canonical(row, f) == row[FieldIndex(f)].second

\* Mutant: the comparison stops after the account.
row_less_no_ordinals(a, b, useBookingDate) ==
    IF to_i64(canonical(a, IF useBookingDate THEN "BookingDate" ELSE "ValueDate"))
        # to_i64(canonical(b, IF useBookingDate THEN "BookingDate" ELSE "ValueDate"))
    THEN to_i64(canonical(a, IF useBookingDate THEN "BookingDate" ELSE "ValueDate"))
        < to_i64(canonical(b, IF useBookingDate THEN "BookingDate" ELSE "ValueDate"))
    ELSE str_less(canonical(a, "AccountIBAN"), canonical(b, "AccountIBAN"))

\* The comparison of std::stable_sort: date, account, entry ordinal,
\* transaction ordinal.
row_less(a, b, useBookingDate) ==
    IF to_i64(canonical(a, IF useBookingDate THEN "BookingDate" ELSE "ValueDate"))
        # to_i64(canonical(b, IF useBookingDate THEN "BookingDate" ELSE "ValueDate"))
    THEN to_i64(canonical(a, IF useBookingDate THEN "BookingDate" ELSE "ValueDate"))
        < to_i64(canonical(b, IF useBookingDate THEN "BookingDate" ELSE "ValueDate"))
    ELSE IF canonical(a, "AccountIBAN") # canonical(b, "AccountIBAN")
    THEN str_less(canonical(a, "AccountIBAN"), canonical(b, "AccountIBAN"))
    ELSE IF to_i64(canonical(a, "EntryOrdinal")) # to_i64(canonical(b, "EntryOrdinal"))
    THEN to_i64(canonical(a, "EntryOrdinal")) < to_i64(canonical(b, "EntryOrdinal"))
    ELSE to_i64(canonical(a, "TransactionOrdinal")) < to_i64(canonical(b, "TransactionOrdinal"))

\* Mutant: a row goes before the rows it is equal to.
RECURSIVE insert_before_equal(_, _, _)
insert_before_equal(sorted, r, useBookingDate) ==
    IF sorted = <<>> THEN <<r>>
    ELSE IF ~row_less(sorted[Len(sorted)], r, useBookingDate)
    THEN Append(insert_before_equal(SubSeq(sorted, 1, Len(sorted) - 1), r, useBookingDate),
                sorted[Len(sorted)])
    ELSE Append(sorted, r)

\* std::stable_sort, as the insertion of each row behind the rows that are
\* not greater (the result of a stable sort does not depend on the algorithm).
RECURSIVE insert_sorted(_, _, _)
insert_sorted(sorted, r, useBookingDate) ==
    IF sorted = <<>> THEN <<r>>
    ELSE IF row_less(r, sorted[Len(sorted)], useBookingDate)
    THEN Append(insert_sorted(SubSeq(sorted, 1, Len(sorted) - 1), r, useBookingDate),
                sorted[Len(sorted)])
    ELSE Append(sorted, r)

RECURSIVE stable_sort(_, _)
stable_sort(rows, useBookingDate) ==
    IF rows = <<>> THEN <<>>
    ELSE insert_sorted(stable_sort(SubSeq(rows, 1, Len(rows) - 1), useBookingDate),
                       rows[Len(rows)], useBookingDate)

\* sortExportData::frac: the digits behind the '.' at position p (0 for npos)
frac_at(s, p) == IF p = 0 THEN 0 ELSE Len(s) - p

frac(s) == frac_at(s, find_first(s, ".", 1))

\* fp brought to scale digits
resize_fraction(fp, scale) ==
    IF Len(fp) < scale THEN fp \o Repeat("0", scale - Len(fp)) ELSE SubSeq(fp, 1, scale)

\* sortExportData::parse_scaled, p the position of the '.' (0 for npos)
parse_scaled_at(s, p, scale) ==
    to_i64((IF p = 0 THEN (IF s = <<>> THEN <<"0">> ELSE s)
            ELSE IF p = 1 THEN <<"0">>
            ELSE SubSeq(s, 1, p - 1))
           \o (IF scale = 0 THEN <<>>
               ELSE resize_fraction(IF p = 0 THEN <<>> ELSE SubSeq(s, p + 1, Len(s)), scale)))

parse_scaled(s, scale) == parse_scaled_at(s, find_first(s, ".", 1), scale)

RECURSIVE strip_zeros(_)
strip_zeros(s) ==
    IF s # <<>> /\ s[Len(s)] = "0" THEN strip_zeros(SubSeq(s, 1, Len(s) - 1)) ELSE s

strip_dot(s) ==
    IF s # <<>> /\ s[Len(s)] = "." THEN SubSeq(s, 1, Len(s) - 1) ELSE s

\* The digits s with the '.' scale digits before the end, trailing zeros and
\* a trailing '.' dropped.
with_dot(s, scale) ==
    strip_dot(strip_zeros(SubSeq(s, 1, Len(s) - scale) \o <<".">>
                          \o SubSeq(s, Len(s) - scale + 1, Len(s))))

\* sortExportData::fmt_scaled
fmt_scaled(v, scale) ==
    (IF v < 0 THEN <<"-">> ELSE <<>>)
    \o (IF scale = 0 THEN NatToStr(Abs(v))
        ELSE with_dot(pad_left_zero(NatToStr(Abs(v)), scale + 1), scale))

\* Mutant: a reversal does not change the sign.
row_sign_no_reversal(row) == IF canonical(row, "CreditDebit") = <<"1">> THEN 1 ELSE -1

\* The sign of a row: CreditDebit.second, flipped under Reversal.second.
row_sign(row) ==
    IF (canonical(row, "CreditDebit") = <<"1">>) # (canonical(row, "Reversal") = <<"1">>)
    THEN 1 ELSE -1

\* Bal& b = bal[iban], a new one being {0, 0}
bal_of(bal, iban) == IF iban \in DOMAIN bal THEN bal[iban] ELSE [v |-> 0, scale |-> 0]

\* Mutant: the scale is raised, the value is not multiplied.
scale_up_keep_value(b, sScale) ==
    IF sScale > b.scale THEN [v |-> b.v, scale |-> sScale] ELSE b

\* b brought to the scale of the row's amount where that is finer
scale_up(b, sScale) ==
    IF sScale > b.scale THEN [v |-> b.v * Pow10(sScale - b.scale), scale |-> sScale] ELSE b

\* b after the row: b.v += sign * delta
add_row(b, row) ==
    [v     |-> b.v + row_sign(row) * parse_scaled(canonical(row, "Amount"), b.scale),
     scale |-> b.scale]

put_bal(bal, iban, b) == [k \in DOMAIN bal \cup {iban} |-> IF k = iban THEN b ELSE bal[k]]

\* The map bal of the loop after the rows i..n (1-based), from bal before
\* row i.
RECURSIVE bals_from(_, _, _, _)
bals_from(rows, i, n, bal) ==
    IF i > n THEN bal
    ELSE bals_from(rows, i + 1, n,
            put_bal(bal, canonical(rows[i], "AccountIBAN"),
                    add_row(scale_up(bal_of(bal, canonical(rows[i], "AccountIBAN")),
                                     frac(canonical(rows[i], "Amount"))),
                            rows[i])))

\* The row with RunningBalance.first = RunningBalance.second = text
with_running(row, text) ==
    [row EXCEPT ![FieldIndex("RunningBalance")] = [first |-> text, second |-> text]]

RECURSIVE running_from(_, _, _)
running_step(rows, i, bal, iban, b) ==
    running_from([rows EXCEPT ![i] = with_running(rows[i], fmt_scaled(b.v, b.scale))],
                 i + 1, put_bal(bal, iban, b))

\* The loop over the rows from row i on (1-based), bal the balances so far.
running_from(rows, i, bal) ==
    IF i > Len(rows) THEN rows
    ELSE running_step(rows, i, bal, canonical(rows[i], "AccountIBAN"),
             add_row(scale_up(bal_of(bal, canonical(rows[i], "AccountIBAN")),
                              frac(canonical(rows[i], "Amount"))),
                     rows[i]))

\* Mutant: the running-balance pass starts at the first row, title or not.
sortExportData_pass_from_top(rows, hasTitle, useBookingDate) ==
    IF Len(rows) < 1 + (IF hasTitle THEN 1 ELSE 0) THEN [ret |-> TRUE, rows |-> rows]
    ELSE IF Len(rows[1 + (IF hasTitle THEN 1 ELSE 0)]) < Len(ExportFields)
    THEN [ret |-> FALSE, rows |-> rows]
    ELSE [ret  |-> TRUE,
          rows |-> running_from(
                     (IF hasTitle THEN <<rows[1]>> ELSE <<>>)
                     \o stable_sort(SubSeq(rows, 1 + (IF hasTitle THEN 1 ELSE 0), Len(rows)),
                                    useBookingDate),
                     1,
                     <<>>)]

\* sortExportData(rows, hasTitle, useBookingDate): [ret, rows].  A row behind
\* the first data row with fewer fields than ExportField::Count is read out
\* of range; the rows here all have them but for a lone first one.
sortExportData(rows, hasTitle, useBookingDate) ==
    IF Len(rows) < 1 + (IF hasTitle THEN 1 ELSE 0) THEN [ret |-> TRUE, rows |-> rows]
    ELSE IF Len(rows[1 + (IF hasTitle THEN 1 ELSE 0)]) < Len(ExportFields)
    THEN [ret |-> FALSE, rows |-> rows]
    ELSE [ret  |-> TRUE,
          rows |-> running_from(
                     (IF hasTitle THEN <<rows[1]>> ELSE <<>>)
                     \o stable_sort(SubSeq(rows, 1 + (IF hasTitle THEN 1 ELSE 0), Len(rows)),
                                    useBookingDate),
                     1 + (IF hasTitle THEN 1 ELSE 0),
                     <<>>)]

MaxSortRows == 3

\* A data row with the fields sortExportData reads; the dates are short
\* numbers that fit the word of the model.
SortRow(bd, vd, iban, eo, to, amt, credit, rev) ==
    [i \in 1..Len(ExportFields) |->
        IF ExportFields[i] = "BookingDate" THEN Same(bd)
        ELSE IF ExportFields[i] = "ValueDate" THEN Same(vd)
        ELSE IF ExportFields[i] = "AccountIBAN" THEN Same(iban)
        ELSE IF ExportFields[i] = "EntryOrdinal" THEN Same(eo)
        ELSE IF ExportFields[i] = "TransactionOrdinal" THEN Same(to)
        ELSE IF ExportFields[i] = "Amount" THEN Same(amt)
        ELSE IF ExportFields[i] = "CreditDebit" THEN Same(credit)
        ELSE IF ExportFields[i] = "Reversal" THEN Same(rev)
        ELSE IF ExportFields[i] = "RunningBalance" THEN Same(<<"9", ".", "9", "9">>)
        ELSE Pair(<<>>, <<>>)]

SortRows ==
    {SortRow(<<"1", "0", "0", "8">>, <<"1", "0", "0", "9">>, <<"D", "E", "1">>, <<"0">>, <<>>, <<"1", "0", ".", "0", "0">>, <<"1">>, <<"0">>),
     SortRow(<<"1", "0", "0", "8">>, <<"1", "0", "0", "8">>, <<"D", "E", "1">>, <<"1">>, <<"0">>, <<"2", ".", "5">>, <<"0">>, <<"0">>),
     SortRow(<<"1", "0", "0", "8">>, <<"1", "0", "0", "8">>, <<"D", "E", "1">>, <<"1">>, <<"0">>, <<"0", ".", "1", "2", "5">>, <<"0">>, <<"1">>),
     SortRow(<<"1", "0", "0", "7">>, <<"1", "0", "1", "0">>, <<"A", "T", "9">>, <<"0">>, <<"1">>, <<"7">>, <<"1">>, <<"1">>),
     SortRow(<<>>, <<"1", "0", "0", "8">>, <<"D", "E">>, <<"2">>, <<"-", "1">>, <<".", "5">>, <<"1">>, <<"0">>)}

\* The rows with their place in the input as EndToEndId.
Tagged(rows) ==
    [k \in 1..Len(rows) |->
        [rows[k] EXCEPT ![FieldIndex("EndToEndId")] = Same(NatToStr(k))]]

\* A header row: names, no canonical values.
SortHeader ==
    [i \in 1..Len(ExportFields) |->
        IF ExportFields[i] = "EndToEndId" THEN Pair(<<"H">>, <<>>) ELSE Pair(<<"N">>, <<>>)]

SrtInputs ==
    {Tagged(rs) : rs \in SeqsUpTo(SortRows, MaxSortRows)}
    \cup {<<SortHeader>> \o Tagged(rs) : rs \in SeqsUpTo(SortRows, MaxSortRows)}
    \cup {<<<<Pair(<<"x">>, <<>>)>>>>}

SrtIdle ==
    /\ srtIn = None
    /\ srtRes = None
    /\ srtLast = None
    /\ srtPrev = None
    /\ srtPc = "idle"

\* ret is read after a call only.
SrtInit ==
    /\ srtRes \in {[ret |-> TRUE, rows |-> rows] : rows \in SrtInputs}
    /\ srtIn = None
    /\ srtLast = None
    /\ srtPrev = None
    /\ srtPc = "input"

\* sortExportData(rows, hasTitle, useBookingDate), for the first and for the
\* second time on the same ExportData
SortExportData ==
    /\ srtPc \in {"input", "once"}
    /\ \E hasTitle \in BOOLEAN, useBookingDate \in BOOLEAN :
        /\ srtRes' = sortExportData(srtRes.rows, hasTitle, useBookingDate)
        /\ srtLast' = Some([hasTitle |-> hasTitle, useBookingDate |-> useBookingDate])
    /\ srtIn' = Some(srtRes.rows)
    /\ srtPrev' = srtLast
    /\ srtPc' = IF srtPc = "input" THEN "once" ELSE "twice"

SrtNext == SortExportData

(***************************************************************************)
(* accumulate_hash_row (camt_csv.hpp): the canonical values of the selected *)
(* fields of a row, joined in the order of the fields of the row.           *)
(***************************************************************************)
\* accumulate_hash_row::kHashCoreFields
kHashCoreFields ==
    <<"BookingDate", "Amount", "CreditDebit", "Currency", "CounterpartyIBAN",
      "CounterpartyBIC", "RemittanceLine", "EndToEndId", "TxId", "BankRef", "AccountIBAN",
      "BkTxCd", "Reversal", "Primanota", "DTACode">>

\* normalize_or_accumulate_row::contains
contains(list, f) == \E k \in 1..Len(list) : list[k] = f

\* normalize_or_accumulate_row::append_item: index=value<US> ("US" stands
\* for the byte 0x1F); i is the place of the field, its index is i - 1.
append_item(acc, i, value) == acc \o NatToStr(i - 1) \o <<"=">> \o value \o <<"US">>

\* Mutant: the items in the order of the requested list.
RECURSIVE accumulate_in_list_order(_, _, _, _, _)
accumulate_in_list_order(row, fields, includeMode, k, acc) ==
    IF k > Len(fields) THEN acc
    ELSE accumulate_in_list_order(row, fields, includeMode, k + 1,
            IF FieldIndex(fields[k]) <= Len(row)
            THEN append_item(acc, FieldIndex(fields[k]), row[FieldIndex(fields[k])].second)
            ELSE acc)

\* normalize_or_accumulate_row with an accumulator, from field i on.
RECURSIVE accumulate_row(_, _, _, _, _)
accumulate_row(row, fields, includeMode, i, acc) ==
    IF i > Min2(Len(row), Len(ExportFields)) THEN acc
    ELSE accumulate_row(row, fields, includeMode, i + 1,
            IF fields = <<>> \/ (includeMode <=> contains(fields, ExportFields[i]))
            THEN append_item(acc, i, row[i].second)
            ELSE acc)

\* accumulate_hash_row(row, fields)
accumulate_hash_row(row, fields) ==
    accumulate_row(row, IF fields = <<>> THEN kHashCoreFields ELSE fields, TRUE, 1, <<>>)

MaxHashFields == 3

\* The rows of an export with a full and an empty sub-transaction row, the
\* first fields of one of them alone, and a row as sortExportData reads it.
HshDocument ==
    [kind |-> "Camt053",
     statements |->
        <<ExpStatement(CHOOSE a \in ExpAccounts : a.currency = "EUR", <<>>,
            <<ExpEntry([currency |-> "EUR", minor |-> 1250], FALSE, FALSE, <<>>, <<TxFull>>),
              ExpEntry([currency |-> "EUR", minor |-> 1000], TRUE, FALSE, D_NEXT, <<>>)>>)>>]

HshExport ==
    export_entries_csv([doc |-> HshDocument, opt |-> DefaultOptions, hasOs |-> FALSE,
                        hasV |-> TRUE, gvcMap |-> {}]).rows

\* The row with the canonical values date and amount in BookingDate and
\* Amount.
HshRowWith(date, amount) ==
    [SortRow(<<"1", "0", "0", "8">>, <<"1", "0", "0", "9">>, <<"D", "E", "1">>, <<"0">>, <<>>, <<"1", "0", ".", "0", "0">>, <<"1">>, <<"0">>)
        EXCEPT ![FieldIndex("BookingDate")] = Pair(<<"d">>, date),
               ![FieldIndex("Amount")] = Pair(<<"a">>, amount)]

\* Rows whose canonical values hold '=' and the byte 0x1F ("US").
HshSeparatorRows ==
    {HshRowWith(<<"x">>, <<"y", "US", "2", "=", "b">>),
     HshRowWith(<<"x", "US", "2", "=", "y">>, <<"b">>),
     HshRowWith(<<"x", "=", "y">>, <<"b">>)}

HshRows ==
    {HshExport[2], HshExport[3], SubSeq(HshExport[2], 1, 4),
     SortRow(<<"1", "0", "0", "8">>, <<"1", "0", "0", "9">>, <<"D", "E", "1">>, <<"0">>, <<>>, <<"1", "0", ".", "0", "0">>, <<"1">>, <<"0">>)}
    \cup HshSeparatorRows

\* The requested lists: fields in any order, with repetitions.
HshFieldLists == SeqsUpTo({"EndToEndId", "BookingDate", "Amount"}, MaxHashFields)

HshIdle ==
    /\ hshRow = None
    /\ hshFields = None
    /\ hshOut = None
    /\ hshPrev = None
    /\ hshPc = "idle"

HshInit ==
    /\ hshRow \in HshRows
    /\ hshFields = None
    /\ hshOut = None
    /\ hshPrev = None
    /\ hshPc = "input"

\* accumulate_hash_row(row, fields), for the first and for the second time on
\* the same row; the row is a const reference.
AccumulateHashRow ==
    /\ hshPc \in {"input", "once"}
    /\ \E fields \in HshFieldLists :
        /\ hshFields' = Some(fields)
        /\ hshOut' = accumulate_hash_row(hshRow, fields)
    /\ hshPrev' = IF hshPc = "input" THEN None ELSE Some([fields |-> hshFields[1], out |-> hshOut])
    /\ hshPc' = IF hshPc = "input" THEN "once" ELSE "twice"
    /\ UNCHANGED hshRow

HshNext == AccumulateHashRow

(***************************************************************************)
(* get_gvc_map (gvc_map.hpp): the table of GVC codes, a function-local      *)
(* static built on the first call, and the threads that call it.            *)
(***************************************************************************)
\* split_semicolon(line) from position start on: the trimmed columns
RECURSIVE split_from_pos(_, _, _)
split_from_pos(line, start, pos) ==
    IF pos = 0 THEN <<ascii_trim(SubSeq(line, start, Len(line)))>>
    ELSE <<ascii_trim(SubSeq(line, start, pos - 1))>>
         \o split_from_pos(line, pos + 1, find_first(line, ";", pos + 1))

split_semicolon(line) == split_from_pos(line, 1, find_first(line, ";", 1))

\* The end of the loop body of build_gvc_map_from_embedded: the entry is
\* inserted unless a part of it is missing ("NUL" stands for '\0').
insert_entry(map, iso, crFlag, domain, family, variant) ==
    IF iso = <<>> \/ crFlag \notin {"C", "D"} \/ domain = <<>> \/ family = <<>> \/ variant = <<>>
    THEN map
    ELSE map \cup {[domain |-> domain, family |-> family, variant |-> variant,
                    crFlag |-> crFlag, iso |-> iso]}

insert_cols(map, cols) ==
    IF Len(cols) < 5 THEN map
    ELSE IF cols[1] = <<"G", "V", "C">> THEN map
    ELSE insert_entry(map, ascii_trim(cols[1]), IF cols[2] = <<>> THEN "NUL" ELSE cols[2][1],
                      upper_trim(cols[3]), upper_trim(cols[4]), upper_trim(cols[5]))

\* One round of the getline loop of build_gvc_map_from_embedded.
insert_line(map, line) == insert_cols(map, split_semicolon(line))

\* build_gvc_map_from_embedded, from line i on.  The multimap is the set of
\* its entries; find gives one of the entries of a key, the same one on
\* every call as long as the table is not written.
RECURSIVE build_gvc_map_from(_, _, _)
build_gvc_map_from(csv, i, map) ==
    IF i > Len(csv) THEN map ELSE build_gvc_map_from(csv, i + 1, insert_line(map, csv[i]))

build_gvc_map_from_embedded(csv) == build_gvc_map_from(csv, 1, {})

\* Mutant: the initialization starts although another thread is in it.
guard_admits_running(guard) == guard # "done"

\* The guard of the static M: the first thread to reach the declaration runs
\* the initializer, a thread that arrives while it runs waits, later ones
\* pass.
guard_admits(guard) == guard = "uninit"

GvcThreads == {"t1", "t2", "t3"}

\* kGvcCsvEmbedded is not among the sources; these are lines of its format:
\* a header, entries, one to be trimmed and raised, a short line, a line with
\* a flag that is neither C nor D, and a second entry for a key.
GvcCsvs ==
    {<<<<"G", "V", "C", ";", "D", "C", ";", "D", "o", "m", "a", "i", "n", ";", "F", "a", "m", "i", "l", "y", ";", "S", "u", "b", "F", "a", "m", "i", "l", "y", ";", "D", "o", "m", "D", "e", "s", "c">>,
       <<"0", "5", "8", ";", "C", ";", "P", "M", "N", "T", ";", "R", "C", "D", "T", ";", "V", "C", "O", "M", ";", "x">>,
       <<"0", "8", "2", " ", ";", " ", "D", ";", " ", "p", "m", "n", "t", ";", "i", "c", "d", "t", " ", ";", "E", "s", "c", "t">>>>,
     <<<<"0", "5", "8", ";", "C", ";", "P", "M", "N", "T", ";", "R", "C", "D", "T", ";", "V", "C", "O", "M">>,
       <<"j", "u", "n", "k", ";", ";">>,
       <<"0", "5", "1", ";", "X", ";", "P", "M", "N", "T", ";", "R", "C", "D", "T", ";", "E", "S", "C", "T">>,
       <<"0", "5", "9", ";", "C", ";", "P", "M", "N", "T", ";", "R", "C", "D", "T", ";", "V", "C", "O", "M">>>>}

GvcLookups ==
    {[domain |-> <<"p", "m", "n", "t", " ">>, family |-> <<"R", "C", "D", "T">>, variant |-> <<"V", "C", "O", "M">>, crFlag |-> "C"],
     [domain |-> <<"P", "M", "N", "T">>, family |-> <<"I", "C", "D", "T">>, variant |-> <<"E", "S", "C", "T">>, crFlag |-> "D"],
     [domain |-> <<"P", "M", "N", "T">>, family |-> <<"R", "C", "D", "T">>, variant |-> <<"E", "S", "C", "T">>, crFlag |-> "D"]}

GvcIdle ==
    /\ gvcCsv = None
    /\ gvcGuard = "idle"
    /\ gvcM = {}
    /\ gvcPc = None
    /\ gvcLine = None
    /\ gvcBuilds = 0
    /\ gvcSeen = {}
    /\ gvcLog = {}

GvcInit ==
    /\ gvcCsv \in {Some(csv) : csv \in GvcCsvs}
    /\ gvcGuard = "uninit"
    /\ gvcM = {}
    /\ gvcPc = [t \in GvcThreads |-> "start"]
    /\ gvcLine = [t \in GvcThreads |-> 1]
    /\ gvcBuilds = 0
    /\ gvcSeen = {}
    /\ gvcLog = {}

\* get_gvc_map(): thread t reaches the declaration of M.  An initialized M is
\* passed by; an uninitialized one makes t run the initializer.
GvcEnter(t) ==
    /\ gvcPc[t] = "start"
    /\ \/ /\ gvcGuard = "done"
          /\ gvcPc' = [gvcPc EXCEPT ![t] = "have"]
          /\ gvcSeen' = gvcSeen \cup {gvcM}
          /\ UNCHANGED <<gvcGuard, gvcBuilds, gvcLine>>
       \/ /\ guard_admits(gvcGuard)
          /\ gvcGuard' = "running"
          /\ gvcPc' = [gvcPc EXCEPT ![t] = "build"]
          /\ gvcLine' = [gvcLine EXCEPT ![t] = 1]
          /\ gvcBuilds' = gvcBuilds + 1
          /\ UNCHANGED gvcSeen
    /\ UNCHANGED <<gvcCsv, gvcM, gvcLog>>

\* One line of the table goes into M (the returned map is built in place).
GvcBuildLine(t) ==
    /\ gvcPc[t] = "build"
    /\ gvcLine[t] <= Len(gvcCsv[1])
    /\ gvcM' = insert_line(gvcM, gvcCsv[1][gvcLine[t]])
    /\ gvcLine' = [gvcLine EXCEPT ![t] = gvcLine[t] + 1]
    /\ UNCHANGED <<gvcCsv, gvcGuard, gvcPc, gvcBuilds, gvcSeen, gvcLog>>

\* The initializer returns: M is initialized, and t has its reference.
GvcBuilt(t) ==
    /\ gvcPc[t] = "build"
    /\ gvcLine[t] > Len(gvcCsv[1])
    /\ gvcGuard' = "done"
    /\ gvcPc' = [gvcPc EXCEPT ![t] = "have"]
    /\ gvcSeen' = gvcSeen \cup {gvcM}
    /\ UNCHANGED <<gvcCsv, gvcM, gvcLine, gvcBuilds, gvcLog>>

\* lookup_gvc(get_gvc_map(), domain, family, variant, crFlag) of thread t,
\* which then comes back for the next row.
GvcLookup(t) ==
    /\ gvcPc[t] = "have"
    /\ \E k \in GvcLookups :
        gvcLog' = gvcLog \cup {<<k, lookup_gvc(gvcM, k.domain, k.family, k.variant, k.crFlag)>>}
    /\ gvcSeen' = gvcSeen \cup {gvcM}
    /\ gvcPc' = [gvcPc EXCEPT ![t] = "start"]
    /\ UNCHANGED <<gvcCsv, gvcGuard, gvcM, gvcLine, gvcBuilds>>

GvcNext ==
    \E t \in GvcThreads : GvcEnter(t) \/ GvcBuildLine(t) \/ GvcBuilt(t) \/ GvcLookup(t)

(***************************************************************************)
(* normalize_or_accumulate_row without accumulator, on rows whose canonical  *)
(* values are partly set.                                                    *)
(***************************************************************************)
\* The row with the canonical values of the fields in blank emptied.
Blanked(row, blank) ==
    [i \in 1..Len(row) |->
        IF i <= Len(ExportFields) /\ ExportFields[i] \in blank
        THEN [first |-> row[i].first, second |-> <<>>]
        ELSE row[i]]

\* Rows as write_row builds them before it normalizes: a full row, its first
\* fields alone, and a row with one field more than ExportField::Count.
NrmRows ==
    {Blanked(r, b) :
        r \in {HshExport[2], SubSeq(HshExport[2], 1, 6),
               HshExport[3] \o <<[first |-> <<" ", "x">>, second |-> <<>>]>>},
        b \in {{}, {"Amount"}, {"EndToEndId", "CounterpartyName"},
               {"Amount", "Currency", "CounterpartyName", "EndToEndId", "Status"},
               {ExportFields[i] : i \in 1..Len(ExportFields)}}}

NrmFieldLists == {{}, {"Amount", "EndToEndId"}, {"CounterpartyName", "Status"}, NormFields}

NrmIdle ==
    /\ nrmIn = None
    /\ nrmOut = None
    /\ nrmPc = "idle"

NrmInit ==
    /\ nrmIn \in {Some([row |-> r, fields |-> f, includeMode |-> m]) :
                    r \in NrmRows, f \in NrmFieldLists, m \in BOOLEAN}
    /\ nrmOut = None
    /\ nrmPc = "input"

\* normalize_or_accumulate_row(row, fields, includeMode)
NormalizeRow ==
    /\ nrmPc = "input"
    /\ nrmOut' = Some(normalize_row(nrmIn[1].row, nrmIn[1].fields, nrmIn[1].includeMode))
    /\ nrmPc' = "done"
    /\ UNCHANGED nrmIn

NrmNext == NormalizeRow

(***************************************************************************)
(* sortExportData on rows of which one behind the first data row has fewer   *)
(* fields than ExportField::Count.  Only rows[off] is measured; the          *)
(* comparison and the running-balance pass index every data row, and an      *)
(* index beyond the end of a row is undefined: the call may end the          *)
(* process, or go on with whatever stands there.                             *)
(***************************************************************************)
\* The texts a read beyond the end of a row gives where the call goes on.
SrtGarbage == {<<>>, <<"9">>}

\* A data row behind the first is shorter than the fields the call indexes.
reads_beyond(rows, off) ==
    /\ Len(rows) >= 1 + off
    /\ Len(rows[1 + off]) >= Len(ExportFields)
    /\ \E k \in (off + 2)..Len(rows) : Len(rows[k]) < Len(ExportFields)

\* The row as the call finds it: behind its end stands g (marked with the
\* number of fields the row has).
beyond_row(row, g) ==
    [i \in 1..Max2(Len(row), Len(ExportFields)) |->
        IF i <= Len(row) THEN row[i] ELSE [first |-> g, second |-> g, beyond |-> Len(row)]]

beyond_rows(rows, off, g) ==
    [k \in 1..Len(rows) |-> IF k <= off THEN rows[k] ELSE beyond_row(rows[k], g)]

\* The fields of the row itself; what the call wrote behind them is no part
\* of the row.
own_fields(row) ==
    IF \A i \in 1..Len(row) : "beyond" \notin DOMAIN row[i]
    THEN row
    ELSE SubSeq(row, 1, row[CHOOSE i \in 1..Len(row) : "beyond" \in DOMAIN row[i]].beyond)

\* sortExportData where it goes on after reading g beyond the short rows
sort_reading(rows, hasTitle, useBookingDate, g) ==
    [ret  |-> TRUE,
     rows |-> [k \in 1..Len(rows) |->
                own_fields(sortExportData(beyond_rows(rows, IF hasTitle THEN 1 ELSE 0, g),
                                          hasTitle, useBookingDate).rows[k])]]

SrtShortRow ==
    SubSeq(SortRow(<<"1", "0", "0", "7">>, <<"1", "0", "0", "7">>, <<>>, <<>>, <<>>, <<"3">>, <<"1">>, <<>>), 1, 4)

SrtShortRows ==
    {SortRow(<<"1", "0", "0", "8">>, <<"1", "0", "0", "9">>, <<"D", "E", "1">>, <<"0">>, <<>>, <<"1", "0", ".", "0", "0">>, <<"1">>, <<"0">>),
     SortRow(<<"1", "0", "0", "8">>, <<"1", "0", "0", "8">>, <<"D", "E", "1">>, <<"1">>, <<"0">>, <<"2", ".", "5">>, <<"0">>, <<"0">>),
     SrtShortRow}

SrtShortInputs ==
    {rs : rs \in SeqsUpTo(SrtShortRows, MaxSortRows)}
    \cup {<<SortHeader>> \o rs : rs \in SeqsUpTo(SrtShortRows, MaxSortRows)}

SrtShortInit ==
    /\ srtRes \in {[ret |-> TRUE, rows |-> rows] : rows \in SrtShortInputs}
    /\ srtIn = None
    /\ srtLast = None
    /\ srtPrev = None
    /\ srtPc = "input"

\* sortExportData(rows, hasTitle, useBookingDate) on such rows: it returns as
\* on full rows where no short row is indexed; where one is, the process
\* ends ("crashed") or the call goes on with what it read.
SortUncheckedRows ==
    /\ srtPc = "input"
    /\ \E hasTitle \in BOOLEAN, useBookingDate \in BOOLEAN :
        /\ srtLast' = Some([hasTitle |-> hasTitle, useBookingDate |-> useBookingDate])
        /\ \/ /\ ~reads_beyond(srtRes.rows, IF hasTitle THEN 1 ELSE 0)
              /\ srtRes' = sortExportData(srtRes.rows, hasTitle, useBookingDate)
              /\ srtPc' = "once"
           \/ /\ reads_beyond(srtRes.rows, IF hasTitle THEN 1 ELSE 0)
              /\ srtRes' = srtRes
              /\ srtPc' = "crashed"
           \/ /\ reads_beyond(srtRes.rows, IF hasTitle THEN 1 ELSE 0)
              /\ \E g \in SrtGarbage :
                    srtRes' = sort_reading(srtRes.rows, hasTitle, useBookingDate, g)
              /\ srtPc' = "once"
    /\ srtIn' = Some(srtRes.rows)
    /\ srtPrev' = srtLast

SrtShortNext == SortUncheckedRows

(***************************************************************************)
(* Specifications, one per component: the other components stay idle.       *)
(***************************************************************************)
InitDec ==
    DecInit /\ FxIdle /\ XmlIdle /\ ExpIdle /\ SrtIdle /\ HshIdle /\ GvcIdle /\ NrmIdle

SpecDec ==
    InitDec
    /\ [][DecNext /\ UNCHANGED <<fxVars, xmlVars, expVars, srtVars, hshVars, gvcVars, nrmVars>>]_vars

InitFx ==
    FxInit /\ DecIdle /\ XmlIdle /\ ExpIdle /\ SrtIdle /\ HshIdle /\ GvcIdle /\ NrmIdle

SpecFx ==
    InitFx
    /\ [][FxNext /\ UNCHANGED <<decVars, xmlVars, expVars, srtVars, hshVars, gvcVars, nrmVars>>]_vars

InitXml ==
    XmlInit /\ DecIdle /\ FxIdle /\ ExpIdle /\ SrtIdle /\ HshIdle /\ GvcIdle /\ NrmIdle

SpecXml ==
    InitXml
    /\ [][XmlNext /\ UNCHANGED <<decVars, fxVars, expVars, srtVars, hshVars, gvcVars, nrmVars>>]_vars

InitExport ==
    ExpInit /\ DecIdle /\ FxIdle /\ XmlIdle /\ SrtIdle /\ HshIdle /\ GvcIdle /\ NrmIdle

SpecExport ==
    InitExport
    /\ [][ExpNext /\ UNCHANGED <<decVars, fxVars, xmlVars, srtVars, hshVars, gvcVars, nrmVars>>]_vars

InitSort ==
    SrtInit /\ DecIdle /\ FxIdle /\ XmlIdle /\ ExpIdle /\ HshIdle /\ GvcIdle /\ NrmIdle

SpecSort ==
    InitSort
    /\ [][SrtNext /\ UNCHANGED <<decVars, fxVars, xmlVars, expVars, hshVars, gvcVars, nrmVars>>]_vars

InitHash ==
    HshInit /\ DecIdle /\ FxIdle /\ XmlIdle /\ ExpIdle /\ SrtIdle /\ GvcIdle /\ NrmIdle

SpecHash ==
    InitHash
    /\ [][HshNext /\ UNCHANGED <<decVars, fxVars, xmlVars, expVars, srtVars, gvcVars, nrmVars>>]_vars

InitGvc ==
    GvcInit /\ DecIdle /\ FxIdle /\ XmlIdle /\ ExpIdle /\ SrtIdle /\ HshIdle /\ NrmIdle

SpecGvc ==
    InitGvc
    /\ [][GvcNext /\ UNCHANGED <<decVars, fxVars, xmlVars, expVars, srtVars, hshVars, nrmVars>>]_vars

InitNorm ==
    NrmInit /\ DecIdle /\ FxIdle /\ XmlIdle /\ ExpIdle /\ SrtIdle /\ HshIdle /\ GvcIdle

SpecNorm ==
    InitNorm
    /\ [][NrmNext /\ UNCHANGED <<decVars, fxVars, xmlVars, expVars, srtVars, hshVars, gvcVars>>]_vars

InitSortShort ==
    SrtShortInit /\ DecIdle /\ FxIdle /\ XmlIdle /\ ExpIdle /\ HshIdle /\ GvcIdle /\ NrmIdle

SpecSortShort ==
    InitSortShort
    /\ [][SrtShortNext /\ UNCHANGED <<decVars, fxVars, xmlVars, expVars, hshVars, gvcVars, nrmVars>>]_vars

\* C2 as stated: with instructed 100.00 USD (source), settlement 92.00 EUR
\* (target) and the supplied rate 1.0870, the supplied rate is reported as
\* inverted and the derived rate 0.92 becomes the effective rate.
FxC2Input ==
    /\ fxIn # None
    /\ fxIn[1].instd = Some([text |-> T_100_00, ccy |-> "USD"])
    /\ fxIn[1].tx = Some([text |-> T_92_00, ccy |-> "EUR"])
    /\ fxIn[1].cx # None
    /\ fxIn[1].cx[1].src = "USD" /\ fxIn[1].cx[1].trg = "EUR"
    /\ fxIn[1].cx[1].rate = Some(T_1_0870)

C2_InversionFlagged ==
    (fxPc = "done" /\ FxC2Input)
        => (fxTx.inverted = TRUE /\ fxTx.effRate = Rat(92, 100))

\* C2 amended: for that input the reciprocal 1/1.0870 = 0.919963.. misses the
\* derived 0.92 by 3.7e-5, more than the tolerance 9.2e-7, so the supplied rate
\* is not reported as inverted (outInverted = false); the derived rate 0.92 is
\* adopted as the effective rate and stored in fx.rate.
C2_DerivedAdoptedNotFlagged ==
    (fxPc = "done" /\ FxC2Input)
        => /\ fxTx.inverted = FALSE
           /\ fxTx.effRate = Rat(92, 100)
           /\ fxTx.fx.rate = Rat(92, 100) /\ fxTx.fx.has

\* C2 witness: the input of the claim has been reconciled.
C2_Witness ==
    fxPc = "done" /\ FxC2Input /\ fxTx.effRate = Rat(23, 25) /\ ~fxTx.inverted

\* The FX fields as parse_txdtls read them from the XML, before the derived
\* rate is stored, and the two amounts it handed to reconcile_ccyxchg.
FxExtracted == read_amtdtls(fxIn, fxTx.fxInstdAmt, fxTx.fxTxAmt, fxTx.fxCounterValAmt)

FxMapped == map_src_trg(FxExtracted)

FxNoUsablePair ==
    \/ FxMapped.src = None
    \/ FxMapped.trg = None
    \/ FxMapped.src[1].currency = "" \/ FxMapped.trg[1].currency = ""
    \/ FxMapped.src[1].minor = 0 \/ FxMapped.trg[1].minor = 0
    \/ FxMapped.src[1].currency = FxMapped.trg[1].currency

\* C20: when one of the two FX amounts is missing, has no currency or is
\* zero, or when source and target are the same currency, no rate is derived:
\* the effective rate is 0 and fx.rate and fx.has stay as read from the XML.
C20_NoRateWithoutTwoDistinctAmounts ==
    (fxPc = "done" /\ FxNoUsablePair)
        => /\ fxTx.effRate = RatZero
           /\ fxTx.fx.rate = FxExtracted.fx.rate
           /\ fxTx.fx.has = FxExtracted.fx.has

\* The amounts of AmtDtls as parsed, in the order TxAmt, InstdAmt, CntrValAmt.
FxCandidates ==
    (IF fxTx.hasFxTxAmt THEN <<fxTx.fxTxAmt>> ELSE <<>>)
    \o (IF fxTx.hasFxInstdAmt THEN <<fxTx.fxInstdAmt>> ELSE <<>>)
    \o (IF fxTx.hasFxCntrVal THEN <<fxTx.fxCounterValAmt>> ELSE <<>>)

FxMatching == SelectSeq(FxCandidates, LAMBDA ca : ca.currency = fxAcct)

FxReplaces ==
    /\ fxAcct # ""
    /\ FxMatching # <<>>
    /\ (fxTx.txAmountRead = None \/ fxTx.txAmountRead[1].currency # fxAcct)

\* C21: the first of TxAmt, InstdAmt, CntrValAmt in the account's currency is
\* the candidate; it replaces the transaction amount only when none was set
\* or the one set is in another currency; with an empty account currency or
\* without a candidate the transaction amount stays.
C21_AccountCurrencyPreferred ==
    fxPc = "done"
        => /\ FxReplaces => fxTx.txAmount = Some(FxMatching[1])
           /\ ~FxReplaces => fxTx.txAmount = fxTx.txAmountRead

\* An amount in another currency was replaced by InstdAmt, TxAmt not matching.
C21_Witness ==
    /\ fxPc = "done"
    /\ FxReplaces
    /\ fxTx.txAmountRead # None
    /\ fxTx.hasFxTxAmt /\ fxTx.fxTxAmt.currency # fxAcct
    /\ fxTx.txAmount = Some(fxTx.fxInstdAmt)
    /\ fxTx.txAmount # fxTx.txAmountRead

(***************************************************************************)
(* Claims about the XML extraction (SpecXml).                               *)
(***************************************************************************)
XmlParsedRoot == xmlPc = "done" /\ xmlIn.loaded /\ xmlIn.root # None

\* The statements the call appended to out.statements.
NewStatements ==
    SubSeq(xmlRes.out.statements, Len(xmlIn.out.statements) + 1, Len(xmlRes.out.statements))

\* YYYY-MM-DD
IsIsoDate(s) ==
    /\ Len(s) = 10
    /\ \A i \in {1, 2, 3, 4, 6, 7, 9, 10} : IsDigit(s[i])
    /\ s[5] = "-" /\ s[8] = "-"

\* C3: a booking or value date text that is shorter than 10 characters or not
\* of the form YYYY-MM-DD gives the integer date 0, and no exception leaves the
\* extraction of the document.
C3_MalformedDateYieldsZero ==
    XmlParsedRoot =>
        /\ xmlRes.ret # "threw"
        /\ \A k \in 1..Len(NewStatements) :
             \A i \in 1..Len(NewStatements[k].entries) :
                LET e == NewStatements[k].entries[i]
                IN  /\ ~IsIsoDate(e.bookingDate) => e.bookingDateInt = 0
                    /\ ~IsIsoDate(e.valueDate) => e.valueDateInt = 0

\* The paths to all descendants of an element.
RECURSIVE PathsOf(_)
PathsOf(el) ==
    UNION {{<<i>>} \cup {<<i>> \o q : q \in PathsOf(el.kids[i])} : i \in 1..Len(el.kids)}

\* Document order (depth-first, parent before child): p comes before q.
RECURSIVE PathBefore(_, _)
PathBefore(p, q) ==
    IF p = <<>> THEN q # <<>>
    ELSE IF q = <<>> THEN FALSE
    ELSE IF p[1] # q[1] THEN p[1] < q[1]
    ELSE PathBefore(Tail(p), Tail(q))

FirstInDocumentOrder(S) ==
    IF S = {} THEN None
    ELSE Some(CHOOSE p \in S : \A q \in S \ {p} : PathBefore(p, q))

\* The descendants of root whose local name is in names.
NamedPaths(root, names) == {p \in PathsOf(root) : ln(node_at(root, p)) \in names}

DirectPayloads(root) == {p \in NamedPaths(root, PayloadNames) : Len(p) = 1}

\* The payload as the claim C5 describes it.
PayloadInDocumentOrder(root) ==
    IF ln(root) \in PayloadNames THEN Some(<<>>)
    ELSE IF DirectPayloads(root) # {} THEN FirstInDocumentOrder(DirectPayloads(root))
    ELSE FirstInDocumentOrder(NamedPaths(root, PayloadNames))

\* C5 as claimed: the payload is the root if it bears a payload name, otherwise
\* the first direct child that bears one, otherwise the first descendant in
\* document order that bears any of the three names.
C5_FirstMatchInDocumentOrder ==
    XmlParsedRoot => xmlRes.payload = PayloadInDocumentOrder(xmlIn.root[1])

PayloadByNamePriority(root) ==
    IF ln(root) \in PayloadNames THEN Some(<<>>)
    ELSE IF ln(root) = "Document" /\ DirectPayloads(root) # {}
    THEN FirstInDocumentOrder(DirectPayloads(root))
    ELSE IF NamedPaths(root, {"BkToCstmrStmt"}) # {}
    THEN FirstInDocumentOrder(NamedPaths(root, {"BkToCstmrStmt"}))
    ELSE IF NamedPaths(root, {"BkToCstmrDbtCdtNtfctn"}) # {}
    THEN FirstInDocumentOrder(NamedPaths(root, {"BkToCstmrDbtCdtNtfctn"}))
    ELSE FirstInDocumentOrder(NamedPaths(root, {"BkToCstmrAcctRpt"}))

\* C5 amended: the payload is the root if it bears a payload name; otherwise,
\* only when the root's local name is Document, the first direct child that bears
\* one; otherwise the first descendant in document order named BkToCstmrStmt, if
\* there is none the first named BkToCstmrDbtCdtNtfctn, if there is none the
\* first named BkToCstmrAcctRpt; the null node if there is none at all.
C5_NamePriorityThenDocumentOrder ==
    XmlParsedRoot => xmlRes.payload = PayloadByNamePriority(xmlIn.root[1])

\* C5 witness: the depth-first search picked a nested BkToCstmrStmt although
\* another payload-named element precedes it in document order.
C5_Witness ==
    /\ XmlParsedRoot
    /\ xmlRes.payload # None
    /\ Len(xmlRes.payload[1]) = 2
    /\ \E q \in NamedPaths(xmlIn.root[1], PayloadNames) : PathBefore(q, xmlRes.payload[1])

HasPayload(root) == ln(root) \in PayloadNames \/ NamedPaths(root, PayloadNames) # {}

\* No root element, or no element that bears a payload name.
StructuralFailure ==
    /\ xmlIn.loaded
    /\ IF xmlIn.root = None THEN TRUE ELSE ~HasPayload(xmlIn.root[1])

\* C8: on a document without root element or without a known payload element
\* the call returns false, sets the error message (where the caller passed an
\* error string), and adds no statement to the output Document.
C8_StructuralFailureAddsNothing ==
    (xmlPc = "done" /\ StructuralFailure) =>
        /\ xmlRes.ret = "false"
        /\ xmlIn.err # None =>
             xmlRes.err = Some(IF xmlIn.root = None THEN "Empty document"
                               ELSE "Unsupported CAMT root")
        /\ xmlRes.out.statements = xmlIn.out.statements

\* C8 witness: an unsupported root was rejected, with an error string passed and
\* an output Document that already held a statement.
C8_Witness ==
    /\ xmlPc = "done" /\ StructuralFailure /\ xmlIn.root # None
    /\ xmlIn.out.statements # <<>> /\ xmlIn.err # None
    /\ xmlRes.ret = "false" /\ xmlRes.err = Some("Unsupported CAMT root")
    /\ xmlRes.out.statements = xmlIn.out.statements

\* The children of an element with the given local name, in document order.
KidsNamed(el, names) == SelectSeq(el.kids, LAMBDA n : ln(n) \in names)

\* The statement elements of the payload find_payload returned.
StatementElements ==
    KidsNamed(node_at(xmlIn.root[1], xmlRes.payload[1]), {"Stmt", "Ntfctn", "Rpt"})

FirstText(el, name) ==
    IF KidsNamed(el, {name}) = <<>> THEN <<>> ELSE KidsNamed(el, {name})[1].text

\* The TxDtls elements of the first NtryDtls of an Ntry element.
TxElements(ntry) ==
    IF KidsNamed(ntry, {"NtryDtls"}) = <<>> THEN <<>>
    ELSE KidsNamed(KidsNamed(ntry, {"NtryDtls"})[1], {"TxDtls"})

EndToEndOf(tx) ==
    IF KidsNamed(tx, {"Refs"}) = <<>> THEN <<>>
    ELSE FirstText(KidsNamed(tx, {"Refs"})[1], "EndToEndId")

\* The entries of s are the Ntry children of el, one for one and in order, and
\* the transactions of each are the TxDtls elements of its NtryDtls.
EntriesFollow(s, el) ==
    /\ Len(s.entries) = Len(KidsNamed(el, {"Ntry"}))
    /\ \A i \in 1..Len(s.entries) :
         LET e == s.entries[i]
             n == KidsNamed(el, {"Ntry"})[i]
         IN  /\ e.entryRef = FirstText(n, "NtryRef")
             /\ Len(e.transactions) = Len(TxElements(n))
             /\ \A j \in 1..Len(e.transactions) :
                  e.transactions[j].endToEndId = EndToEndOf(TxElements(n)[j])

OrdinalsDense(s) ==
    \A i \in 1..Len(s.entries) :
        /\ s.entries[i].importOrdinal = i - 1
        /\ \A j \in 1..Len(s.entries[i].transactions) :
             s.entries[i].transactions[j].importOrdinal = j - 1

\* C9: after a successful parse the i-th entry of every statement (0-based,
\* document order of its Ntry elements) has importOrdinal i and the j-th
\* sub-transaction of every entry (document order of its TxDtls elements) has
\* importOrdinal j; other elements consume no ordinal.
C9_OrdinalsFollowDocumentOrder ==
    (xmlPc = "done" /\ xmlRes.ret = "true") =>
        /\ \A k \in 1..Len(xmlRes.out.statements) : OrdinalsDense(xmlRes.out.statements[k])
        /\ Len(NewStatements) = Len(StatementElements)
        /\ \A k \in 1..Len(NewStatements) :
             EntriesFollow(NewStatements[k], StatementElements[k])

\* C9 witness: a statement whose first child is not an Ntry gave two entries,
\* the first with two sub-transactions that follow a Btch element.
C9_Witness ==
    /\ xmlPc = "done" /\ xmlRes.ret = "true"
    /\ \E k \in 1..Len(NewStatements) :
         /\ Len(NewStatements[k].entries) = 2
         /\ ~isln(StatementElements[k].kids[1], "Ntry")
         /\ NewStatements[k].entries[2].importOrdinal = 1
         /\ Len(NewStatements[k].entries[1].transactions) = 2
         /\ NewStatements[k].entries[1].transactions[2].importOrdinal = 1
         /\ ~isln(KidsNamed(KidsNamed(StatementElements[k], {"Ntry"})[1],
                            {"NtryDtls"})[1].kids[1], "TxDtls")

\* What the call would have given on a Document that was empty before.
XmlAlone == parse_string([xmlIn EXCEPT !.out = EmptyDocument])

\* C26: parse_string does not clear the output Document: after a successful
\* call on a Document that an earlier call filled, its statements are the
\* earlier ones followed by those of this input, and its kind is that of this
\* input; the Document holds the statements of this input alone only if it
\* was empty before the call.
C26_ParseAppendsToOutput ==
    (xmlPc = "done" /\ xmlRes.ret = "true") =>
        /\ XmlAlone.ret = "true"
        /\ xmlRes.out.statements = xmlIn.out.statements \o XmlAlone.out.statements
        /\ xmlRes.out.kind = XmlAlone.out.kind
        /\ xmlRes.out.kind = detect_kind(IF xmlRes.payload = None THEN None
                                         ELSE Some(node_at(xmlIn.root[1], xmlRes.payload[1])))
        /\ (xmlRes.out.statements = XmlAlone.out.statements) <=> (xmlIn.out.statements = <<>>)

\* A camt.052 input with two reports parsed into the Document of a camt.053
\* input with one statement: three statements, kind Camt052.
C26_Witness ==
    /\ xmlPc = "done"
    /\ xmlRes.ret = "true"
    /\ xmlIn.out = FilledDocument
    /\ xmlIn.out.kind = "Camt053"
    /\ Len(xmlIn.out.statements) = 1
    /\ xmlRes.out.kind = "Camt052"
    /\ Len(xmlRes.out.statements) = 3
    /\ xmlRes.out.statements[1] = FilledDocument.statements[1]
    /\ xmlRes.out.statements[2] # xmlRes.out.statements[3]

(***************************************************************************)
(* Claims about the CSV export                                              *)
(***************************************************************************)
ExpFilled == expPc = "done" /\ expIn.hasV

\* The rows of the ExportData after the header row.
DataRows == IF expIn.opt.include_header THEN Tail(expOut.rows) ELSE expOut.rows

\* C4: after export_entries_csv has filled an ExportData, every field of every
\* data row has a non-empty canonical value (second).
C4_CanonicalNeverEmpty ==
    ExpFilled =>
        \A n \in 1..Len(DataRows) : \A i \in 1..Len(DataRows[n]) :
            DataRows[n][i].second # <<>>

\* The (entry, sub-transaction) pairs of statement k from entry i on, in
\* document order; 0 stands for "no sub-transaction".
RECURSIVE PairsFrom(_, _, _)
PairsFrom(st, k, i) ==
    IF i > Len(st.entries) THEN <<>>
    ELSE (IF st.entries[i].transactions = <<>> THEN <<<<k, i, 0>>>>
          ELSE [j \in 1..Len(st.entries[i].transactions) |-> <<k, i, j>>])
         \o PairsFrom(st, k, i + 1)

RECURSIVE PairsOf(_, _)
PairsOf(doc, k) ==
    IF k > Len(doc.statements) THEN <<>>
    ELSE PairsFrom(doc.statements[k], k, 1) \o PairsOf(doc, k + 1)

\* The row was made from the pair q = <<statement, entry, sub-transaction>>.
RowIsOf(row, doc, q) ==
    LET st == doc.statements[q[1]]
        e  == st.entries[q[2]]
    IN  /\ Len(row) = Len(ExportFields)
        /\ row[FieldIndex("AccountIBAN")].first
            = (IF st.account.iban # <<>> THEN st.account.iban ELSE st.account.other)
        /\ row[FieldIndex("ValueDate")].first = e.valueDate
        /\ row[FieldIndex("EntryOrdinal")].second = IntToStr(q[2] - 1)
        /\ row[FieldIndex("TransactionOrdinal")].second
            = (IF q[3] = 0 THEN <<>> ELSE IntToStr(q[3] - 1))
        /\ row[FieldIndex("EndToEndId")].first
            = (IF q[3] = 0 THEN <<>> ELSE e.transactions[q[3]].refs.endToEndId)

RECURSIVE SumRows(_, _)
SumRows(entries, i) ==
    IF i > Len(entries) THEN 0
    ELSE Max2(1, Len(entries[i].transactions)) + SumRows(entries, i + 1)

RECURSIVE SumStatements(_, _)
SumStatements(doc, k) ==
    IF k > Len(doc.statements) THEN 0
    ELSE SumRows(doc.statements[k].entries, 1) + SumStatements(doc, k + 1)

\* The lines of the stream.
Lines(os) == Len(SelectSeq(os, LAMBDA c : c = "\n"))

\* C10: export_entries_csv emits one row per (entry, sub-transaction) pair and
\* one row per entry without sub-transactions, a statement yielding the sum
\* over its entries of max(1, number of sub-transactions) rows, in document
\* order: statements, then entries, then sub-transactions.
C10_OneRowPerPairInDocumentOrder ==
    /\ ExpFilled =>
        /\ Len(DataRows) = SumStatements(expIn.doc, 1)
        /\ Len(DataRows) = Len(PairsOf(expIn.doc, 1))
        /\ \A n \in 1..Len(DataRows) :
            RowIsOf(DataRows[n], expIn.doc, PairsOf(expIn.doc, 1)[n])
    /\ (expPc = "done" /\ expIn.hasOs) =>
        Lines(expOut.os)
            = SumStatements(expIn.doc, 1) + (IF expIn.opt.include_header THEN 1 ELSE 0)

\* Two statements, an entry with two sub-transactions before an entry
\* without one: four data rows.
C10_Witness ==
    /\ ExpFilled
    /\ Len(expIn.doc.statements) = 2
    /\ Len(expIn.doc.statements[1].entries) = 2
    /\ Len(expIn.doc.statements[1].entries[1].transactions) = 2
    /\ expIn.doc.statements[1].entries[2].transactions = <<>>
    /\ expIn.doc.statements[1].account # expIn.doc.statements[2].account
    /\ Len(DataRows) = 4

\* The entry and the optional sub-transaction of the pair q.
EntryOf(doc, q) == doc.statements[q[1]].entries[q[2]]

TxOf(doc, q) == IF q[3] = 0 THEN None ELSE Some(EntryOf(doc, q).transactions[q[3]])

\* The direction before and after the reversal flip.
RawCredit(doc, q) ==
    IF q[3] # 0 /\ TxOf(doc, q)[1].hasCdtDbtInd THEN TxOf(doc, q)[1].isCredit
    ELSE EntryOf(doc, q).isCredit

EffCredit(doc, q) == RawCredit(doc, q) # EntryOf(doc, q).reversal

First(row, f) == row[FieldIndex(f)].first

Second(row, f) == row[FieldIndex(f)].second

\* The counterparty of the row comes from the debtor side (d = TRUE) or from
\* the creditor side of tx.
FromSide(row, tx, d) ==
    /\ First(row, "CounterpartyIBAN") = (IF d THEN tx.parties.debtorIban ELSE tx.parties.creditorIban)
    /\ First(row, "CounterpartyBIC") = (IF d THEN tx.agents.debtorBic ELSE tx.agents.creditorBic)
    /\ First(row, "CounterpartyName")
        \in (IF d THEN {tx.parties.debtor, tx.parties.ultimateDebtor}
             ELSE {tx.parties.creditor, tx.parties.ultimateCreditor})

\* C11: the effective direction of a row is the transaction's credit flag
\* where it carries one, the entry's otherwise, flipped iff the entry is a
\* reversal; the counterparty comes from the debtor side of an effectively
\* credit row and from the creditor side of an effectively debit row.
C11_CounterpartyByEffectiveDirection ==
    ExpFilled =>
        \A n \in 1..Len(DataRows) :
            LET q == PairsOf(expIn.doc, 1)[n]
            IN  /\ q[3] # 0 => FromSide(DataRows[n], TxOf(expIn.doc, q)[1], EffCredit(expIn.doc, q))
                /\ q[3] = 0 =>
                    /\ First(DataRows[n], "CounterpartyName") = <<>>
                    /\ First(DataRows[n], "CounterpartyIBAN") = <<>>
                    /\ First(DataRows[n], "CounterpartyBIC") = <<>>
                /\ (expIn.opt.use_effective_credit /\ expIn.opt.credit_as_bool) =>
                    First(DataRows[n], "CreditDebit") = Bit(EffCredit(expIn.doc, q))
                /\ expIn.opt.signed_amount =>
                    (Head(First(DataRows[n], "Amount")) = "-") = ~EffCredit(expIn.doc, q)

\* A reversal entry with CdtDbtInd = CRDT whose row names the creditor side.
C11_Witness ==
    /\ ExpFilled
    /\ \E n \in 1..Len(DataRows) :
        LET q == PairsOf(expIn.doc, 1)[n]
        IN  /\ q[3] # 0
            /\ EntryOf(expIn.doc, q).reversal
            /\ EntryOf(expIn.doc, q).isCredit
            /\ RawCredit(expIn.doc, q)
            /\ TxOf(expIn.doc, q)[1].parties.creditorIban # <<>>
            /\ TxOf(expIn.doc, q)[1].parties.creditorIban # TxOf(expIn.doc, q)[1].parties.debtorIban
            /\ First(DataRows[n], "CounterpartyIBAN") = TxOf(expIn.doc, q)[1].parties.creditorIban

\* The amount of the pair q: the transaction's where present.
AmountOfPair(doc, q) ==
    IF q[3] # 0 /\ TxOf(doc, q)[1].txAmount # None THEN TxOf(doc, q)[1].txAmount[1]
    ELSE EntryOf(doc, q).amount

DeltaOfPair(doc, q) ==
    IF EffCredit(doc, q) THEN Abs(AmountOfPair(doc, q).minor) ELSE -Abs(AmountOfPair(doc, q).minor)

\* The sum of the deltas of the rows of q's statement up to row n.
RECURSIVE RunningSum(_, _, _)
RunningSum(doc, pairs, n) ==
    IF n = 0 THEN 0
    ELSE IF n > 1 /\ pairs[n - 1][1] = pairs[n][1]
    THEN DeltaOfPair(doc, pairs[n]) + RunningSum(doc, pairs, n - 1)
    ELSE DeltaOfPair(doc, pairs[n])

\* The currency the running balance is formatted in: the account's, else the
\* first one a row of the statement brought.
PairCcy(doc, q) ==
    IF AmountOfPair(doc, q).currency # "" THEN AmountOfPair(doc, q).currency
    ELSE EntryOf(doc, q).amount.currency

RunningCcy(doc, pairs, n) ==
    LET k == pairs[n][1]
        withCcy == {m \in 1..n : pairs[m][1] = k /\ PairCcy(doc, pairs[m]) # ""}
    IN  IF doc.statements[k].account.currency # "" THEN doc.statements[k].account.currency
        ELSE IF withCcy = {} THEN ""
        ELSE PairCcy(doc, pairs[CHOOSE m \in withCcy : \A x \in withCcy : m <= x])

\* C12: within one statement the RunningBalance after the k-th row is the sum
\* over rows 1..k of +|a| for effectively credit and -|a| for effectively
\* debit rows, a being the transaction's amount where present and the entry's
\* otherwise, starting from zero.
C12_RunningBalanceIsSignedSum ==
    ExpFilled =>
        \A n \in 1..Len(DataRows) :
            LET pairs == PairsOf(expIn.doc, 1)
                text  == fmt_amount([currency |-> RunningCcy(expIn.doc, pairs, n),
                                     minor    |-> RunningSum(expIn.doc, pairs, n)])
            IN  /\ First(DataRows[n], "RunningBalance") = text
                /\ Second(DataRows[n], "RunningBalance") = text

\* One entry with the sub-transactions CRDT 100.00 EUR and DBIT 30.00 EUR, no
\* reversal: two rows, 70.00 after the second.
C12_Witness ==
    /\ ExpFilled
    /\ Len(expIn.doc.statements) = 1
    /\ Len(expIn.doc.statements[1].entries) = 1
    /\ ~expIn.doc.statements[1].entries[1].reversal
    /\ expIn.doc.statements[1].entries[1].transactions
        = <<[TxCrdt100 EXCEPT !.importOrdinal = 0], [TxDbit30 EXCEPT !.importOrdinal = 1]>>
    /\ Len(DataRows) = 2
    /\ First(DataRows[1], "RunningBalance") = <<"1", "0", "0", ".", "0", "0">>
    /\ First(DataRows[2], "RunningBalance") = <<"7", "0", ".", "0", "0">>

\* Two settings of the display options.
DisplayOptions ==
    {[signed_amount |-> TRUE, credit_as_bool |-> TRUE, use_effective_credit |-> FALSE,
      remittance_separator |-> <<>>, delimiter |-> ";"],
     [signed_amount |-> FALSE, credit_as_bool |-> FALSE, use_effective_credit |-> TRUE,
      remittance_separator |-> <<" ", "/", " ">>, delimiter |-> ","]}

WithDisplay(in, o) ==
    [in EXCEPT !.opt.signed_amount = o.signed_amount,
               !.opt.credit_as_bool = o.credit_as_bool,
               !.opt.use_effective_credit = o.use_effective_credit,
               !.opt.remittance_separator = o.remittance_separator,
               !.opt.delimiter = o.delimiter]

DataRowsOf(in) ==
    IF in.opt.include_header THEN Tail(export_entries_csv(in).rows)
    ELSE export_entries_csv(in).rows

\* The rows a and b agree in every canonical value and in every display value
\* but those of Amount, CreditDebit and RemittanceLine.
SameCanonical(a, b) ==
    /\ Len(a) = Len(b)
    /\ \A n \in 1..Len(a) :
        /\ Len(a[n]) = Len(b[n])
        /\ \A i \in 1..Len(a[n]) :
            /\ a[n][i].second = b[n][i].second
            /\ ExportFields[i] \notin {"Amount", "CreditDebit", "RemittanceLine"}
                => a[n][i].first = b[n][i].first

\* C13: for the same Document any two settings of signed_amount,
\* credit_as_bool, use_effective_credit, remittance_separator and delimiter
\* give rows with the same canonical values and the same RunningBalance;
\* Amount.second is the absolute amount, CreditDebit.second the raw direction.
C13_DisplayOptionsDoNotReachCanonical ==
    ExpFilled =>
        /\ \A o \in DisplayOptions : SameCanonical(DataRows, DataRowsOf(WithDisplay(expIn, o)))
        /\ \A n \in 1..Len(DataRows) :
            LET q == PairsOf(expIn.doc, 1)[n]
            IN  /\ Second(DataRows[n], "Amount")
                    = fmt_amount([currency |-> AmountOfPair(expIn.doc, q).currency,
                                  minor    |-> Abs(AmountOfPair(expIn.doc, q).minor)])
                /\ Second(DataRows[n], "CreditDebit") = Bit(RawCredit(expIn.doc, q))

\* An export without signed amounts whose Amount display differs from the
\* default export's on a debit row.
C13_Witness ==
    /\ ExpFilled
    /\ ~expIn.opt.signed_amount
    /\ \E n \in 1..Len(DataRows) :
        /\ ~EffCredit(expIn.doc, PairsOf(expIn.doc, 1)[n])
        /\ First(DataRows[n], "Amount")
            # First(DataRowsOf([expIn EXCEPT !.opt = DefaultOptions])[n], "Amount")
        /\ Second(DataRows[n], "Amount")
            = Second(DataRowsOf([expIn EXCEPT !.opt = DefaultOptions])[n], "Amount")

\* The charge records of the pair q that carry a currency.
SummedCharges(doc, q) ==
    IF q[3] = 0 THEN <<>>
    ELSE SelectSeq(TxOf(doc, q)[1].charges, LAMBDA rec : rec.amount.currency # "")

\* The direction of a charge record: its own, else the transaction's, else
\* the entry's, flipped iff the entry is a reversal.
ChargeIsCredit(doc, q, rec) ==
    (IF rec.hasCdtDbtInd THEN rec.isCredit ELSE RawCredit(doc, q)) # EntryOf(doc, q).reversal

RECURSIVE ChargeSum(_, _, _, _)
ChargeSum(doc, q, recs, i) ==
    IF i > Len(recs) THEN 0
    ELSE (IF ChargeIsCredit(doc, q, recs[i]) THEN Abs(recs[i].amount.minor)
          ELSE -Abs(recs[i].amount.minor))
         + ChargeSum(doc, q, recs, i + 1)

ChargeFields == {"ChargesAmount", "ChargesCurrency", "ChargesIncluded"}

\* C22: the charges total of a row is the sum over the charge records with a
\* currency of |amount| signed by the direction (the record's flag, else the
\* transaction's, else the entry's), flipped iff the entry is a reversal; a
\* row without transaction or without such a record has total 0 and no
\* currency; ChargesIncluded is "1" iff a summed record has the included
\* flag; signed_amount has no influence.
C22_ChargesSignedSum ==
    ExpFilled =>
        \A n \in 1..Len(DataRows) :
            LET q    == PairsOf(expIn.doc, 1)[n]
                recs == SummedCharges(expIn.doc, q)
                ccy  == IF recs = <<>> THEN "" ELSE recs[1].amount.currency
                flip == DataRowsOf([expIn EXCEPT !.opt.signed_amount = ~expIn.opt.signed_amount])
            IN  /\ First(DataRows[n], "ChargesAmount")
                    = fmt_amount([currency |-> ccy,
                                  minor |-> ChargeSum(expIn.doc, q, recs, 1)])
                /\ First(DataRows[n], "ChargesCurrency") = ccy_text(ccy)
                /\ recs = <<>> => /\ First(DataRows[n], "ChargesAmount") = <<"0", ".", "0", "0">>
                                  /\ First(DataRows[n], "ChargesCurrency") = <<>>
                /\ First(DataRows[n], "ChargesIncluded")
                    = Bit(\E i \in 1..Len(recs) : recs[i].included)
                /\ \A f \in ChargeFields : DataRows[n][FieldIndex(f)] = flip[n][FieldIndex(f)]

\* A row of a reversal entry whose transaction has a record without currency
\* that is flagged included, a credit record of 0.30 and a record of -0.20
\* without direction: the total is -0.30 + 0.20, in the first currency, and
\* nothing is included.
C22_Witness ==
    /\ ExpFilled
    /\ \E n \in 1..Len(DataRows) :
        LET q == PairsOf(expIn.doc, 1)[n]
        IN  /\ q[3] # 0
            /\ EntryOf(expIn.doc, q).reversal
            /\ Len(TxOf(expIn.doc, q)[1].charges) = 3
            /\ Len(SummedCharges(expIn.doc, q)) = 2
            /\ TxOf(expIn.doc, q)[1].charges[1].included
            /\ First(DataRows[n], "ChargesAmount") = <<"-", "0", ".", "1", "0">>
            /\ First(DataRows[n], "ChargesCurrency") = <<"U", "S", "D">>
            /\ First(DataRows[n], "ChargesIncluded") = <<"0">>

\* The proprietary code of the pair q, and the places of its '+' signs.
CodeOfPair(doc, q) == IF q[3] = 0 THEN <<>> ELSE TxOf(doc, q)[1].proprietaryBankTxCode

Pluses(c) == {i \in 1..Len(c) : c[i] = "+"}

NthPlus(c, k) == CHOOSE i \in Pluses(c) : Cardinality({j \in Pluses(c) : j <= i}) = k

\* The reference code and the Primanota decoded from the code c.
DecodedGvc(c) ==
    IF Pluses(c) = {} THEN <<>>
    ELSE IF Cardinality(Pluses(c)) = 1 THEN SubSeq(c, NthPlus(c, 1) + 1, Len(c))
    ELSE SubSeq(c, NthPlus(c, 1) + 1, NthPlus(c, 2) - 1)

DecodedPrimanota(c) ==
    IF Cardinality(Pluses(c)) < 2 THEN <<>> ELSE SubSeq(c, NthPlus(c, 2) + 1, Len(c))

\* The codes the table holds for the bank transaction code of the pair q.
TableCodes(in, q) ==
    IF q[3] = 0 THEN {}
    ELSE {r.iso : r \in
            {x \in in.gvcMap :
                /\ x.domain = upper_trim(TxOf(in.doc, q)[1].bankTxCode.domain)
                /\ x.family = upper_trim(TxOf(in.doc, q)[1].bankTxCode.family)
                /\ x.variant = upper_trim(TxOf(in.doc, q)[1].bankTxCode.subFamily)
                /\ x.crFlag = (IF RawCredit(in.doc, q) THEN "C" ELSE "D")}}

\* C25: a proprietary code without '+' gives an empty reference code and an
\* empty Primanota; otherwise the reference code is the text between the
\* first '+' and the next one, or all behind the first '+' where there is no
\* other, and the Primanota all behind the second '+'; the table is asked for
\* the reference code only where the decoded one is empty.
C25_CompositeCodeDecoded ==
    ExpFilled =>
        \A n \in 1..Len(DataRows) :
            LET q == PairsOf(expIn.doc, 1)[n]
                c == CodeOfPair(expIn.doc, q)
            IN  /\ First(DataRows[n], "DTACode") = c
                /\ First(DataRows[n], "Primanota") = DecodedPrimanota(c)
                /\ DecodedGvc(c) # <<>> => First(DataRows[n], "GVCCode") = DecodedGvc(c)
                /\ DecodedGvc(c) = <<>> =>
                    IF TableCodes(expIn, q) = {} THEN First(DataRows[n], "GVCCode") = <<>>
                    ELSE First(DataRows[n], "GVCCode") \in TableCodes(expIn, q)

\* A row whose code has four parts and whose bank transaction code is in the
\* table: the second part is the GVC, the rest the Primanota; and a row whose
\* code ends at its '+', with the GVC of the table.
C25_Witness ==
    /\ ExpFilled
    /\ \E n \in 1..Len(DataRows) :
        /\ CodeOfPair(expIn.doc, PairsOf(expIn.doc, 1)[n]) = <<"N", "+", "2", "+", "7", "+", "8">>
        /\ TableCodes(expIn, PairsOf(expIn.doc, 1)[n]) = {<<"0", "5", "8">>}
        /\ First(DataRows[n], "GVCCode") = <<"2">>
        /\ First(DataRows[n], "Primanota") = <<"7", "+", "8">>
    /\ \E n \in 1..Len(DataRows) :
        /\ CodeOfPair(expIn.doc, PairsOf(expIn.doc, 1)[n]) = <<"X", "+">>
        /\ First(DataRows[n], "GVCCode") = <<"0", "5", "8">>
        /\ First(DataRows[n], "Primanota") = <<>>

\* The first OPBD/PRCD balance and the last CLBD balance of a statement.
OpeningOf(st) ==
    LET I == {i \in 1..Len(st.balances) : st.balances[i].type \in {"OPBD", "PRCD"}}
    IN  IF I = {} THEN None ELSE Some(st.balances[CHOOSE i \in I : \A x \in I : i <= x])

ClosingOf(st) ==
    LET I == {i \in 1..Len(st.balances) : st.balances[i].type = "CLBD"}
    IN  IF I = {} THEN None ELSE Some(st.balances[CHOOSE i \in I : \A x \in I : i >= x])

\* Row n is the first / the last row of its statement.
FirstOfStatement(pairs, n) == n = 1 \/ pairs[n - 1][1] # pairs[n][1]

LastOfStatement(pairs, n) == n = Len(pairs) \/ pairs[n + 1][1] # pairs[n][1]

\* C14: in a statement with an opening balance (OPBD or PRCD) the
\* OpeningBalance field holds it on the first row of the statement only, in a
\* statement with a closing balance (CLBD) the ClosingBalance field holds it
\* on the last row only; every other row of such a statement holds " ", never
\* an empty text.  The row index restarts at each statement.
C14_OpeningFirstClosingLast ==
    ExpFilled =>
        \A n \in 1..Len(DataRows) :
            LET pairs == PairsOf(expIn.doc, 1)
                st    == expIn.doc.statements[pairs[n][1]]
            IN  /\ OpeningOf(st) # None =>
                    /\ First(DataRows[n], "OpeningBalance")
                        = (IF FirstOfStatement(pairs, n) THEN balance_number_str(st, OpeningOf(st))
                           ELSE <<" ">>)
                    /\ Second(DataRows[n], "OpeningBalance") = First(DataRows[n], "OpeningBalance")
                /\ ClosingOf(st) # None =>
                    /\ First(DataRows[n], "ClosingBalance")
                        = (IF LastOfStatement(pairs, n) THEN balance_number_str(st, ClosingOf(st))
                           ELSE <<" ">>)
                    /\ Second(DataRows[n], "ClosingBalance") = First(DataRows[n], "ClosingBalance")
                /\ First(DataRows[n], "OpeningBalance") # <<>>
                /\ First(DataRows[n], "ClosingBalance") # <<>>

\* Two statements with balances, the second with three rows: its first row
\* holds the opening balance, its middle row the placeholders, its last row
\* the closing balance.
C14_Witness ==
    /\ ExpFilled
    /\ Len(expIn.doc.statements) = 2
    /\ OpeningOf(expIn.doc.statements[2]) # None
    /\ ClosingOf(expIn.doc.statements[2]) # None
    /\ Len(PairsOf(expIn.doc, 1)) = 6
    /\ Len(DataRows) = 6
    /\ First(DataRows[4], "OpeningBalance") = <<"-", "4", ".", "0", "0">>
    /\ First(DataRows[4], "ClosingBalance") = <<" ">>
    /\ First(DataRows[5], "OpeningBalance") = <<" ">>
    /\ First(DataRows[5], "ClosingBalance") = <<" ">>
    /\ First(DataRows[6], "OpeningBalance") = <<" ">>
    /\ First(DataRows[6], "ClosingBalance") = <<"-", "7", ".", "0", "0">>

(***************************************************************************)
(* Claims about sortExportData                                              *)
(***************************************************************************)
\* The last call sorted: it returned true on an ExportData with data rows.
SrtSorted == srtPc \in {"once", "twice"} /\ srtRes.ret

SrtOff == IF srtLast[1].hasTitle THEN 1 ELSE 0

\* The data rows before and after the last call.
SrtBefore == SubSeq(srtIn[1], SrtOff + 1, Len(srtIn[1]))

SrtAfter == SubSeq(srtRes.rows, SrtOff + 1, Len(srtRes.rows))

\* The integer a canonical text stands for: [-]digits, 0 for an empty text.
IntOfText(s) ==
    IF s = <<>> THEN 0
    ELSE IF Head(s) = "-" THEN -DigitsValue(s, 2, Len(s) - 1)
    ELSE DigitsValue(s, 1, Len(s))

\* a before b in the lexicographic order of the character codes.
LexLess(a, b) ==
    \E k \in 1..Len(b) :
        /\ \A i \in 1..(k - 1) : i <= Len(a) /\ a[i] = b[i]
        /\ \/ k = Len(a) + 1
           \/ k <= Len(a) /\ CharCode(a[k]) < CharCode(b[k])

\* The four keys of a row.
KeyOf(row) ==
    <<IntOfText(Second(row, IF srtLast[1].useBookingDate THEN "BookingDate" ELSE "ValueDate")),
      Second(row, "AccountIBAN"),
      IntOfText(Second(row, "EntryOrdinal")),
      IntOfText(Second(row, "TransactionOrdinal"))>>

KeyLess(x, y) ==
    \/ x[1] < y[1]
    \/ x[1] = y[1] /\ LexLess(x[2], y[2])
    \/ x[1] = y[1] /\ x[2] = y[2] /\ x[3] < y[3]
    \/ x[1] = y[1] /\ x[2] = y[2] /\ x[3] = y[3] /\ x[4] < y[4]

\* The place before the call of the row that is at place i after it.
OriginOf(i) ==
    CHOOSE j \in 1..Len(SrtBefore) :
        First(SrtBefore[j], "EndToEndId") = First(SrtAfter[i], "EndToEndId")

\* The rows agree in every field but RunningBalance.
SameButRunning(a, b) ==
    /\ Len(a) = Len(b)
    /\ \A i \in 1..Len(a) : ExportFields[i] # "RunningBalance" => a[i] = b[i]

\* C15: sortExportData orders the data rows by (integer of the chosen date's
\* canonical value, canonical account compared lexicographically, entry
\* ordinal, transaction ordinal) ascending, rows equal in all four keys keep
\* their input order, and with hasTitle the first row is not moved.
C15_StableSortByFourKeys ==
    (SrtSorted /\ Len(srtIn[1]) > SrtOff) =>
        /\ Len(srtRes.rows) = Len(srtIn[1])
        /\ srtLast[1].hasTitle => srtRes.rows[1] = srtIn[1][1]
        /\ \A i \in 1..Len(SrtAfter) : SameButRunning(SrtAfter[i], SrtBefore[OriginOf(i)])
        /\ \A i, j \in 1..Len(SrtAfter) : i # j => OriginOf(i) # OriginOf(j)
        /\ \A i, j \in 1..Len(SrtAfter) :
            i < j =>
                /\ ~KeyLess(KeyOf(SrtAfter[j]), KeyOf(SrtAfter[i]))
                /\ KeyOf(SrtAfter[i]) = KeyOf(SrtAfter[j]) => OriginOf(i) < OriginOf(j)

\* A header and three rows: the last one moved to the front, two rows with
\* equal keys behind it in their input order.
C15_Witness ==
    /\ srtPc = "once"
    /\ srtRes.ret
    /\ srtLast[1].hasTitle
    /\ Len(SrtAfter) = 3
    /\ OriginOf(1) = 3
    /\ OriginOf(2) = 1
    /\ OriginOf(3) = 2
    /\ KeyOf(SrtAfter[2]) = KeyOf(SrtAfter[3])
    /\ First(srtRes.rows[1], "EndToEndId") = <<"H">>

\* C16: a second sortExportData with the same hasTitle and useBookingDate
\* leaves the order of the rows and the RunningBalance of every row as the
\* first call left them.
C16_SortTwiceIsSortOnce ==
    (srtPc = "twice" /\ srtLast = srtPrev) => srtRes.rows = srtIn[1]

\* The second of two equal calls, the first of which had moved rows and
\* written running balances over rows with equal keys.
C16_Witness ==
    /\ srtPc = "twice"
    /\ srtLast = srtPrev
    /\ srtRes.ret
    /\ Len(SrtAfter) = 3
    /\ KeyOf(SrtAfter[2]) = KeyOf(SrtAfter[3])
    /\ First(SrtAfter[1], "EndToEndId") = <<"3">>
    /\ First(SrtAfter[3], "RunningBalance") # <<"9", ".", "9", "9">>

\* The digits behind the '.' of a decimal text.
FracDigits(s) ==
    IF \E i \in 1..Len(s) : s[i] = "."
    THEN Len(s) - (CHOOSE i \in 1..Len(s) : s[i] = ".")
    ELSE 0

\* The decimal text [-]digits[.digits] in units of 10^-S.
ScaledValue(s, S) ==
    LET neg  == s # <<>> /\ Head(s) = "-"
        body == IF neg THEN Tail(s) ELSE s
        dot  == IF \E i \in 1..Len(body) : body[i] = "."
                THEN CHOOSE i \in 1..Len(body) : body[i] = "."
                ELSE Len(body) + 1
        ip   == DigitsValue(body, 1, dot - 1)
        fp   == DigitsValue(body, dot + 1, Len(body) - Min2(dot, Len(body)))
        val  == ip * Pow10(S) + fp * Pow10(S - FracDigits(body))
    IN  IF neg THEN -val ELSE val

\* The finest scale among the amounts and running balances after the call.
SrtScale ==
    LET F == {FracDigits(Second(SrtAfter[i], "Amount")) : i \in 1..Len(SrtAfter)}
             \cup {FracDigits(Second(SrtAfter[i], "RunningBalance")) : i \in 1..Len(SrtAfter)}
             \cup {0}
    IN  CHOOSE m \in F : \A x \in F : x <= m

\* The signed amount of a row: positive iff CreditDebit.second = "1" XOR
\* Reversal.second = "1".
SignedAmount(row) ==
    IF (Second(row, "CreditDebit") = <<"1">>) # (Second(row, "Reversal") = <<"1">>)
    THEN ScaledValue(Second(row, "Amount"), SrtScale)
    ELSE -ScaledValue(Second(row, "Amount"), SrtScale)

\* The sum of the signed amounts of the rows 1..i of the account of row i.
RECURSIVE AccountSum(_, _)
AccountSum(i, j) ==
    IF j = 0 THEN 0
    ELSE (IF Second(SrtAfter[j], "AccountIBAN") = Second(SrtAfter[i], "AccountIBAN")
          THEN SignedAmount(SrtAfter[j]) ELSE 0)
         + AccountSum(i, j - 1)

\* C17: after sortExportData the RunningBalance of each row is the sum over
\* the rows of its account up to and including it, in sorted order, of the
\* absolute amount taken positive iff CreditDebit.second = "1" XOR
\* Reversal.second = "1"; each account accumulates on its own, and the value
\* is in both the display and the canonical RunningBalance.
C17_RunningBalancePerAccount ==
    (SrtSorted /\ Len(srtIn[1]) > SrtOff) =>
        \A i \in 1..Len(SrtAfter) :
            /\ ScaledValue(Second(SrtAfter[i], "RunningBalance"), SrtScale) = AccountSum(i, i)
            /\ First(SrtAfter[i], "RunningBalance") = Second(SrtAfter[i], "RunningBalance")

\* Rows of two accounts, one of them a reversal: AT9 ends at -7, DE1 at
\* 10 - 2.5 = 7.5.
C17_Witness ==
    /\ SrtSorted
    /\ Len(SrtAfter) = 3
    /\ Second(SrtAfter[1], "AccountIBAN") = <<"A", "T", "9">>
    /\ Second(SrtAfter[1], "Reversal") = <<"1">>
    /\ Second(SrtAfter[1], "RunningBalance") = <<"-", "7">>
    /\ Second(SrtAfter[2], "AccountIBAN") = <<"D", "E", "1">>
    /\ Second(SrtAfter[2], "RunningBalance") = <<"1", "0">>
    /\ Second(SrtAfter[3], "AccountIBAN") = <<"D", "E", "1">>
    /\ Second(SrtAfter[3], "RunningBalance") = <<"7", ".", "5">>

\* Bal of the account iban after the first n data rows, in sorted order.
BalAfter(n, iban) == bal_of(bals_from(SrtAfter, 1, n, <<>>), iban)

\* The most digits behind the '.' among the amounts of the rows 1..n of iban.
MaxFrac(n, iban) ==
    LET F == {FracDigits(Second(SrtAfter[j], "Amount")) :
                j \in {x \in 1..n : Second(SrtAfter[x], "AccountIBAN") = iban}} \cup {0}
    IN  CHOOSE m \in F : \A x \in F : x <= m

SrtAccounts == {Second(SrtAfter[j], "AccountIBAN") : j \in 1..Len(SrtAfter)}

\* C24: in the running-balance pass the scale of an account never decreases
\* from row to row and is the largest count of fractional digits of
\* Amount.second seen so far for the account; where it grows by d the value
\* is multiplied by 10^d, so that the balance it stands for changes by the
\* signed amount of the row only.
C24_ScaleOnlyGrows ==
    (SrtSorted /\ Len(srtIn[1]) > SrtOff) =>
        \A n \in 1..Len(SrtAfter) : \A iban \in SrtAccounts :
            LET prev == BalAfter(n - 1, iban)
                cur  == BalAfter(n, iban)
                row  == SrtAfter[n]
                sign == IF (Second(row, "CreditDebit") = <<"1">>) # (Second(row, "Reversal") = <<"1">>)
                        THEN 1 ELSE -1
            IN  /\ cur.scale >= prev.scale
                /\ cur.scale = MaxFrac(n, iban)
                /\ Second(row, "AccountIBAN") # iban => cur = prev
                /\ Second(row, "AccountIBAN") = iban =>
                    /\ cur.v = prev.v * Pow10(cur.scale - prev.scale)
                               + sign * ScaledValue(Second(row, "Amount"), cur.scale)
                    /\ Second(row, "RunningBalance") = fmt_scaled(cur.v, cur.scale)

\* Three rows of one account with 2, 1 and 3 fractional digits: the scale
\* stays at 2 and then grows to 3, 7.50 becoming 7500 thousandths.
C24_Witness ==
    /\ SrtSorted
    /\ Len(SrtAfter) = 3
    /\ BalAfter(1, <<"D", "E", "1">>) = [v |-> 1000, scale |-> 2]
    /\ BalAfter(2, <<"D", "E", "1">>) = [v |-> 750, scale |-> 2]
    /\ BalAfter(3, <<"D", "E", "1">>) = [v |-> 7625, scale |-> 3]
    /\ Second(SrtAfter[3], "RunningBalance") = <<"7", ".", "6", "2", "5">>

\* The row without its RunningBalance.
SansRunning(row) ==
    [i \in 1..Len(row) |->
        IF i = FieldIndex("RunningBalance") THEN Pair(<<>>, <<>>) ELSE row[i]]

\* How often the row r, RunningBalance apart, stands among rows.
TimesIn(r, rows) == Cardinality({i \in 1..Len(rows) : SansRunning(rows[i]) = SansRunning(r)})

\* C27: sortExportData changes the order of the data rows and their
\* RunningBalance and nothing else: every row, compared without
\* RunningBalance, stands as often among the data rows after the call as
\* before it, none is added or dropped, and with hasTitle the first row keeps
\* its place and every field.
C27_OnlyOrderAndRunningBalance ==
    srtPc \in {"once", "twice"} =>
        /\ Len(srtRes.rows) = Len(srtIn[1])
        /\ Len(SrtAfter) = Len(SrtBefore)
        /\ \A i \in 1..Len(SrtBefore) :
            TimesIn(SrtBefore[i], SrtAfter) = TimesIn(SrtBefore[i], SrtBefore)
        /\ \A i \in 1..Len(SrtAfter) :
            TimesIn(SrtAfter[i], SrtBefore) = TimesIn(SrtAfter[i], SrtAfter)
        /\ (srtLast[1].hasTitle /\ srtIn[1] # <<>>) => srtRes.rows[1] = srtIn[1][1]

\* A call with a title row that moved data rows and wrote their
\* RunningBalance; the title row is as it was.
C27_Witness ==
    /\ srtPc = "once"
    /\ srtRes.ret
    /\ srtLast[1].hasTitle
    /\ Len(SrtAfter) = 3
    /\ srtRes.rows # srtIn[1]
    /\ \E i \in 1..Len(SrtAfter) : SansRunning(SrtAfter[i]) # SansRunning(SrtBefore[i])
    /\ \A i \in 1..Len(SrtAfter) :
        Second(SrtAfter[i], "RunningBalance") # Second(SrtBefore[OriginOf(i)], "RunningBalance")
    /\ srtRes.rows[1] = SortHeader

\* C28: sortExportData reads no field that a row lacks: if a data row has
\* fewer than ExportField::Count fields it returns false and leaves the rows
\* as they are, and without data rows it returns true and changes nothing.
C28_ShortRowsRefused ==
    srtPc = "once" =>
        /\ (\E k \in 1..Len(SrtBefore) : Len(SrtBefore[k]) < Len(ExportFields))
            => (srtRes.ret = FALSE /\ srtRes.rows = srtIn[1])
        /\ SrtBefore = <<>> => (srtRes.ret = TRUE /\ srtRes.rows = srtIn[1])

\* The amount of the row write_row writes for (e, tx): TxAmt, else Entry.Amt.
RowAmounts(e) ==
    IF e.transactions = <<>> THEN {e.amount}
    ELSE {IF tx.txAmount # None THEN tx.txAmount[1] ELSE e.amount :
            tx \in {e.transactions[j] : j \in 1..Len(e.transactions)}}

\* The document has one statement and every amount written is in the
\* currency of its account.
OneStatementInAccountCurrency ==
    /\ Len(expIn.doc.statements) = 1
    /\ \A i \in 1..Len(expIn.doc.statements[1].entries) :
          \A a \in RowAmounts(expIn.doc.statements[1].entries[i]) :
              a.currency = expIn.doc.statements[1].account.currency

\* sortExportData on the rows export_entries_csv has written
Resorted(useBookingDate) ==
    sortExportData(expOut.rows, expIn.opt.include_header, useBookingDate)

\* The rows written stand in the order sortExportData gives them.
InSortOrder(useBookingDate) ==
    \A k \in 1..Len(expOut.rows) :
        SansRunning(Resorted(useBookingDate).rows[k]) = SansRunning(expOut.rows[k])

\* Two decimal texts name the same number.
SameNumber(a, b) ==
    ScaledValue(a, Max2(FracDigits(a), FracDigits(b)))
        = ScaledValue(b, Max2(FracDigits(a), FracDigits(b)))

\* C29: for a document with one statement whose amounts are all in the
\* account currency and whose rows stand in sort order, the RunningBalance
\* sortExportData recomputes equals, row by row and as a number, the one
\* export_entries_csv wrote; the first row's balance is its amount with the
\* sign (raw credit) XOR (reversal), without the opening balance.
C29_RunningBalancesAgree ==
    (expPc = "done" /\ expIn.hasV /\ OneStatementInAccountCurrency) =>
        \A useBookingDate \in BOOLEAN :
            InSortOrder(useBookingDate) =>
                /\ Resorted(useBookingDate).ret
                /\ \A k \in 1..Len(DataRows) :
                      SameNumber(canonical(DataRows[k], "RunningBalance"),
                                 canonical(Resorted(useBookingDate).rows[
                                     k + Len(expOut.rows) - Len(DataRows)], "RunningBalance"))
                /\ DataRows # <<>> =>
                      SameNumber(canonical(DataRows[1], "RunningBalance"),
                                 (IF (canonical(DataRows[1], "CreditDebit") = <<"1">>)
                                      # (canonical(DataRows[1], "Reversal") = <<"1">>)
                                  THEN <<>> ELSE <<"-">>)
                                 \o canonical(DataRows[1], "Amount"))

\* Two rows of one statement with an opening balance, a credit and a debit
\* in the account currency, in sort order by value date; the texts of the
\* two balances of the second row differ.
C29_Witness ==
    /\ expPc = "done"
    /\ expIn.hasV
    /\ OneStatementInAccountCurrency
    /\ \E b \in 1..Len(expIn.doc.statements[1].balances) :
          expIn.doc.statements[1].balances[b].type = "OPBD"
    /\ Len(DataRows) = 2
    /\ InSortOrder(FALSE)
    /\ canonical(DataRows[1], "CreditDebit") # canonical(DataRows[2], "CreditDebit")
    /\ canonical(DataRows[2], "RunningBalance")
         # canonical(Resorted(FALSE).rows[Len(expOut.rows)], "RunningBalance")

(***************************************************************************)
(* Claims about accumulate_hash_row                                         *)
(***************************************************************************)
\* The fields a requested list selects: its members, the core fields for the
\* empty list.
SelectedBy(fields) ==
    IF fields = <<>> THEN {kHashCoreFields[k] : k \in 1..Len(kHashCoreFields)}
    ELSE {fields[k] : k \in 1..Len(fields)}

\* index=value<US> of the selected fields of the row from field i on, in
\* ascending order of the field index.
RECURSIVE JoinedFrom(_, _, _)
JoinedFrom(row, sel, i) ==
    IF i > Len(row) \/ i > Len(ExportFields) THEN <<>>
    ELSE (IF ExportFields[i] \in sel
          THEN IntToStr(i - 1) \o <<"=">> \o row[i].second \o <<"US">>
          ELSE <<>>)
         \o JoinedFrom(row, sel, i + 1)

\* C18: accumulate_hash_row does not depend on the order of the requested
\* list: lists that are permutations of each other, or differ by duplicates
\* only, give the same bytes, the concatenation in ascending field-index order
\* over the selected fields of index, '=', canonical value and 0x1F.
C18_HashIgnoresListOrder ==
    /\ hshPc \in {"once", "twice"} =>
        hshOut = JoinedFrom(hshRow, SelectedBy(hshFields[1]), 1)
    /\ (hshPc = "twice" /\ SelectedBy(hshFields[1]) = SelectedBy(hshPrev[1].fields)) =>
        hshOut = hshPrev[1].out

\* Two calls on a full row with the same two fields in opposite orders.
C18_Witness ==
    /\ hshPc = "twice"
    /\ Len(hshRow) = Len(ExportFields)
    /\ hshFields[1] = <<"EndToEndId", "Amount">>
    /\ hshPrev[1].fields = <<"Amount", "EndToEndId", "Amount">>
    /\ hshOut = hshPrev[1].out
    /\ hshOut = <<"2", "=", "1", "2", ".", "5", "0">> \o <<"US">> \o <<"1", "0", "=", "E", "2", "E", "1">> \o <<"US">>

\* The field at place i is among those the call with the list fields selects.
HshSelected(i, fields) ==
    contains(IF fields = <<>> THEN kHashCoreFields ELSE fields, ExportFields[i])

\* The row without its display values.
SansDisplay(row) == [i \in 1..Len(row) |-> Pair(<<>>, row[i].second)]

\* C30: for one field selection, two rows of ExportField::Count fields have
\* the same fingerprint only if their canonical values are equal in every
\* selected field, whatever the canonical values hold ('=' and the byte 0x1F
\* included); the display values do not influence the fingerprint.
C30_FingerprintSeparatesRows ==
    (hshPc \in {"once", "twice"} /\ Len(hshRow) = Len(ExportFields)) =>
        /\ \A r \in {x \in HshRows : Len(x) = Len(ExportFields)} :
              accumulate_hash_row(r, hshFields[1]) = hshOut
                  => \A i \in 1..Len(ExportFields) :
                        HshSelected(i, hshFields[1]) => r[i].second = hshRow[i].second
        /\ accumulate_hash_row(SansDisplay(hshRow), hshFields[1]) = hshOut

(***************************************************************************)
(* Claims about get_gvc_map                                                 *)
(***************************************************************************)
\* C19: the table is built once even when several threads call get_gvc_map
\* for the first time together, no caller sees a partly built table, and
\* lookup_gvc gives the same result for the same (domain, family, subfamily,
\* flag) on every call.
C19_BuiltOnceSeenWholeLookupPure ==
    /\ gvcBuilds <= 1
    /\ \A m \in gvcSeen : m = build_gvc_map_from_embedded(gvcCsv[1])
    /\ \A x, y \in gvcLog : x[1] = y[1] => x[2] = y[2]

\* The table was built once, all threads hold it, and every lookup was made:
\* one found after trimming and raising, one not found.
C19_Witness ==
    /\ gvcGuard = "done"
    /\ gvcBuilds = 1
    /\ \A t \in GvcThreads : gvcPc[t] = "have"
    /\ \A k \in GvcLookups : \E x \in gvcLog : x[1] = k
    /\ \E x \in gvcLog : x[2] = <<"0", "8", "2">>
    /\ \E x \in gvcLog : x[2] = <<>>

(***************************************************************************)
(* Claims about the normalization of a row                                   *)
(***************************************************************************)
\* Field i of the row is selected by the list and the mode of the call.
NrmSelected(i) ==
    /\ i <= Len(ExportFields)
    /\ \/ nrmIn[1].fields = {}
       \/ nrmIn[1].includeMode /\ ExportFields[i] \in nrmIn[1].fields
       \/ ~nrmIn[1].includeMode /\ ExportFields[i] \notin nrmIn[1].fields

\* C23: normalize_or_accumulate_row in normalization mode changes no display
\* value and no canonical value that is not empty; it writes the canonical
\* value of the selected fields where it is empty and leaves the fields that
\* are not selected as they are.
C23_NormalizationFillsOnly ==
    nrmPc = "done" =>
        /\ Len(nrmOut[1]) = Len(nrmIn[1].row)
        /\ \A i \in 1..Len(nrmIn[1].row) :
            /\ nrmOut[1][i].first = nrmIn[1].row[i].first
            /\ nrmIn[1].row[i].second # <<>> => nrmOut[1][i].second = nrmIn[1].row[i].second
            /\ ~NrmSelected(i) => nrmOut[1][i] = nrmIn[1].row[i]
            /\ (NrmSelected(i) /\ nrmIn[1].row[i].second = <<>>) =>
                nrmOut[1][i].second = normalize_field(ExportFields[i], nrmIn[1].row[i].first)

\* A call with a list to leave out: EndToEndId was empty and is filled,
\* Amount was empty and is not selected, BookingDate keeps a canonical value
\* that differs from what normalization would write.
C23_Witness ==
    /\ nrmPc = "done"
    /\ ~nrmIn[1].includeMode
    /\ nrmIn[1].fields = {"CounterpartyName", "Status"}
    /\ Len(nrmIn[1].row) = Len(ExportFields)
    /\ Second(nrmIn[1].row, "EndToEndId") = <<>>
    /\ Second(nrmOut[1], "EndToEndId") = <<"E", "2", "E", "1">>
    /\ Second(nrmIn[1].row, "CounterpartyName") = <<>>
    /\ Second(nrmOut[1], "CounterpartyName") = <<>>
    /\ First(nrmOut[1], "CounterpartyName") # <<>>
    /\ Second(nrmOut[1], "BookingDate") # <<>>
    /\ Second(nrmOut[1], "BookingDate")
        # normalize_field("BookingDate", First(nrmOut[1], "BookingDate"))

====
